---------------------------- MODULE Spec2Model ----------------------------
(***************************************************************************)
(* MedMarket bot: the recipe/shop filtering and ranking engine.            *)
(*                                                                         *)
(*   RecipeService (src/services/recipe_service.py): search, category      *)
(*   listing, random choice and the diagnosis filter over recipes_db.      *)
(*   ShopService (src/services/shop_service.py): nearby shops by           *)
(*   haversine distance, price lookup and price comparison over shops_db   *)
(*   and prices_db.                                                        *)
(*                                                                         *)
(* A state is the three catalogs the services hold plus the last call:     *)
(* its name (op), its arguments (args) and what it returned (result).      *)
(* Python str values are sequences of one-character strings, dicts are     *)
(* functions on their keys (a missing key is a key outside DOMAIN), a dict *)
(* used for its iteration order is a sequence of <<key, value>> pairs, and *)
(* floats are fixed-point integers (see the arithmetic section).           *)
(*                                                                         *)
(* Around the services stands the bot (src/handlers.py, src/middleware.py):*)
(* user_states is the handlers' dict of per-user states and workers the    *)
(* threads that run the handlers; rate_limit holds the arguments of the    *)
(* decorator for a function decorated with it, call_history the dict of    *)
(* that function's wrapper, callers the threads inside the wrapper, clock  *)
(* the reading of time.time() and executed the times of the calls that     *)
(* ran the function, per user.                                             *)
(***************************************************************************)
EXTENDS Integers, Sequences, FiniteSets, TLC

VARIABLES recipes_db, shops_db, prices_db, op, args, result,
          user_states, workers, rate_limit, call_history, callers, clock, executed

vars == <<recipes_db, shops_db, prices_db, op, args, result,
          user_states, workers, rate_limit, call_history, callers, clock, executed>>

(***************************************************************************)
(* Bounds of the model.                                                    *)
(***************************************************************************)
MaxRecipes == 3
MaxList == 2
MaxLimit == 2

(***************************************************************************)
(* Python values.                                                          *)
(***************************************************************************)
None == [py_none |-> TRUE]

\* None where a str is expected (the category argument of get_all_recipes)
NoCategory == "None"

\* dict.get(key, default)
Get(d, key, default) == IF key \in DOMAIN d THEN d[key] ELSE default

Min(a, b) == IF a <= b THEN a ELSE b
Max(a, b) == IF a >= b THEN a ELSE b

\* seq[:limit]: the first `limit` items, and for a negative `limit` all but
\* the last -limit items.
Slice(seq, limit) ==
    IF limit >= 0
    THEN SubSeq(seq, 1, Min(limit, Len(seq)))
    ELSE SubSeq(seq, 1, Max(Len(seq) + limit, 0))

(***************************************************************************)
(* The bot at rest: no user has a state, no update is being handled and    *)
(* the decorated function has not been called.                             *)
(***************************************************************************)
NumUsers == 2

\* telegram ids
Users == 1..NumUsers

\* TeleBot(threaded=True) hands every update to a pool of num_threads
\* worker threads (2 unless the constructor is told otherwise).
NumWorkers == 2

Workers == 1..NumWorkers

\* A worker that handles no update; key_error is the statement at which a
\* KeyError was raised ("" for none), entry the state the user had when the
\* update arrived (None for no state).
IdleWorker ==
    [update |-> None, pc |-> "idle", error |-> FALSE, key_error |-> "",
     entry |-> None]

\* A thread outside the wrapper of the decorated function.
IdleCaller ==
    [pc |-> "idle", user_id |-> 0, current_time |-> 0, kept |-> <<>>]

Frontend ==
    <<user_states, workers, rate_limit, call_history, callers, clock, executed>>

\* rate_limit(calls: int = 5, period: int = 60)
DefaultLimit == [calls |-> 5, period |-> 60]

FrontendIdle ==
    /\ user_states = <<>>
    /\ workers = [w \in Workers |-> IdleWorker]
    /\ rate_limit = DefaultLimit
    /\ call_history = <<>>
    /\ callers = [w \in Workers |-> IdleCaller]
    /\ clock = 0
    /\ executed = <<>>

(***************************************************************************)
(* Python str: lower(), strip() and the substring test `a in b`.           *)
(***************************************************************************)
Whitespace == {" "}

\* The letters str.lower() changes, each with its lowercase letter: the
\* Latin letters and the Russian ones. A letter outside ASCII is written
\* as "u" and its code point.
UpperLower ==
    <<
      <<"A", "a">>, <<"B", "b">>, <<"C", "c">>,
      <<"D", "d">>, <<"E", "e">>, <<"F", "f">>,
      <<"G", "g">>, <<"H", "h">>, <<"I", "i">>,
      <<"J", "j">>, <<"K", "k">>, <<"L", "l">>,
      <<"M", "m">>, <<"N", "n">>, <<"O", "o">>,
      <<"P", "p">>, <<"Q", "q">>, <<"R", "r">>,
      <<"S", "s">>, <<"T", "t">>, <<"U", "u">>,
      <<"V", "v">>, <<"W", "w">>, <<"X", "x">>,
      <<"Y", "y">>, <<"Z", "z">>, <<"u0410", "u0430">>,
      <<"u0411", "u0431">>, <<"u0412", "u0432">>, <<"u0413", "u0433">>,
      <<"u0414", "u0434">>, <<"u0415", "u0435">>, <<"u0416", "u0436">>,
      <<"u0417", "u0437">>, <<"u0418", "u0438">>, <<"u0419", "u0439">>,
      <<"u041a", "u043a">>, <<"u041b", "u043b">>, <<"u041c", "u043c">>,
      <<"u041d", "u043d">>, <<"u041e", "u043e">>, <<"u041f", "u043f">>,
      <<"u0420", "u0440">>, <<"u0421", "u0441">>, <<"u0422", "u0442">>,
      <<"u0423", "u0443">>, <<"u0424", "u0444">>, <<"u0425", "u0445">>,
      <<"u0426", "u0446">>, <<"u0427", "u0447">>, <<"u0428", "u0448">>,
      <<"u0429", "u0449">>, <<"u042a", "u044a">>, <<"u042b", "u044b">>,
      <<"u042c", "u044c">>, <<"u042d", "u044d">>, <<"u042e", "u044e">>,
      <<"u042f", "u044f">>, <<"u0401", "u0451">> >>

LowerOf ==
    [c \in {UpperLower[i][1] : i \in 1..Len(UpperLower)} |->
        (CHOOSE pair \in {UpperLower[i] : i \in 1..Len(UpperLower)} :
             pair[1] = c)[2]]

\* A bug the claims on the embedded catalog must detect: only the Latin
\* letters lowered.
LowerCharAscii(c) ==
    IF c \in DOMAIN LowerOf /\ Len(c) = 1 THEN LowerOf[c] ELSE c

LowerChar(c) == IF c \in DOMAIN LowerOf THEN LowerOf[c] ELSE c

lower(s) == [i \in 1..Len(s) |-> LowerChar(s[i])]

RECURSIVE lstrip(_)
lstrip(s) ==
    IF s # <<>> /\ Head(s) \in Whitespace THEN lstrip(Tail(s)) ELSE s

RECURSIVE rstrip(_)
rstrip(s) ==
    IF s # <<>> /\ s[Len(s)] \in Whitespace
    THEN rstrip(SubSeq(s, 1, Len(s) - 1))
    ELSE s

strip(s) == rstrip(lstrip(s))

\* needle in hay
StrIn(needle, hay) ==
    \E i \in 0..(Len(hay) - Len(needle)) :
        SubSeq(hay, i + 1, i + Len(needle)) = needle

(***************************************************************************)
(* config.Settings                                                         *)
(***************************************************************************)
max_glycemic_index == 55

(***************************************************************************)
(* RecipeService._filter_by_diagnosis                                      *)
(***************************************************************************)
\* A bug the threshold claim must detect: the comparison of the docstring,
\* which drops a recipe whose index equals the threshold.
fails_diabetes_strict(recipe) ==
    Get(recipe, "glycemic_index", 0) >= max_glycemic_index

\* A bug the diabetes claims must detect: the index read under a key no
\* recipe carries, so that every recipe gets the default 0.
fails_diabetes_wrong_key(recipe) == Get(recipe, "gi", 0) > max_glycemic_index

\* has_diabetes: `gi > settings.max_glycemic_index` skips the recipe
fails_diabetes(recipe) ==
    Get(recipe, "glycemic_index", 0) > max_glycemic_index

\* A bug the gout claims must detect: the recipe's purines compared with
\* the daily allowance (settings.daily_purines_limit, 200) instead of 100.
fails_gout_daily_limit(recipe) == Get(recipe, "purines", 0) > 200

\* has_gout: `purines > 100` skips the recipe
fails_gout(recipe) == Get(recipe, "purines", 0) > 100

\* A bug the celiac claims must detect: a recipe without the flag taken
\* to be suitable (the default of .get written True).
fails_celiac_default_true(recipe) == ~Get(recipe, "suitable_for_celiac", TRUE)

\* has_celiac: `not recipe.get("suitable_for_celiac", False)` skips the recipe
fails_celiac(recipe) == ~Get(recipe, "suitable_for_celiac", FALSE)

\* A bug the conjunction of the constraints must detect: the three checks
\* chained with elif, so that only the first active flag is looked at.
reaches_append_elif(recipe, has_diabetes, has_gout, has_celiac) ==
    IF has_diabetes THEN ~fails_diabetes(recipe)
    ELSE IF has_gout THEN ~fails_gout(recipe)
    ELSE IF has_celiac THEN ~fails_celiac(recipe)
    ELSE TRUE

\* One pass of the loop body: FALSE where the code reaches a `continue`.
reaches_append(recipe, has_diabetes, has_gout, has_celiac) ==
    /\ ~(has_diabetes /\ fails_diabetes(recipe))
    /\ ~(has_gout /\ fails_gout(recipe))
    /\ ~(has_celiac /\ fails_celiac(recipe))

\* A bug the order of the result must detect: filtered.insert(0, recipe)
\* for filtered.append(recipe).
RECURSIVE filter_loop_prepend(_, _, _, _, _)
filter_loop_prepend(recipes, filtered, has_diabetes, has_gout, has_celiac) ==
    IF recipes = <<>>
    THEN filtered
    ELSE filter_loop_prepend(
             Tail(recipes),
             IF reaches_append(Head(recipes), has_diabetes, has_gout, has_celiac)
             THEN <<Head(recipes)>> \o filtered
             ELSE filtered,
             has_diabetes, has_gout, has_celiac)

\* for recipe in recipes: ... filtered.append(recipe)
RECURSIVE filter_loop(_, _, _, _, _)
filter_loop(recipes, filtered, has_diabetes, has_gout, has_celiac) ==
    IF recipes = <<>>
    THEN filtered
    ELSE filter_loop(
             Tail(recipes),
             IF reaches_append(Head(recipes), has_diabetes, has_gout, has_celiac)
             THEN Append(filtered, Head(recipes))
             ELSE filtered,
             has_diabetes, has_gout, has_celiac)

filter_by_diagnosis(recipes, has_diabetes, has_gout, has_celiac) ==
    filter_loop(recipes, <<>>, has_diabetes, has_gout, has_celiac)

(***************************************************************************)
(* RecipeService: the public operations                                    *)
(***************************************************************************)
\* A bug the case-insensitive match must detect: the recipe's name
\* compared as written, without .lower().
name_matches_as_written(query_lower, recipe) == StrIn(query_lower, recipe.name)

\* A bug the empty-query claim must detect: an empty query matching no
\* name (`query_lower and query_lower in ...`).
name_matches_nonempty_query(query_lower, recipe) ==
    query_lower # <<>> /\ StrIn(query_lower, lower(recipe.name))

\* query_lower in recipe["name"].lower()
name_matches(query_lower, recipe) == StrIn(query_lower, lower(recipe.name))

\* The loop over recipe.get("ingredients", []): some ingredient name
\* contains the query.
ingredient_matches(query_lower, recipe) ==
    LET ingredients == Get(recipe, "ingredients", <<>>)
    IN  \E k \in 1..Len(ingredients) :
            StrIn(query_lower, lower(ingredients[k].name))

\* A bug the no-repeat claim must detect: the loop without its `continue`,
\* so that a recipe matched by its name is tested on its ingredients too.
RECURSIVE matching_loop_no_continue(_, _, _)
matching_loop_no_continue(recipes, query_lower, matching_recipes) ==
    IF recipes = <<>>
    THEN matching_recipes
    ELSE LET recipe == Head(recipes)
             by_name == IF name_matches(query_lower, recipe)
                        THEN Append(matching_recipes, recipe)
                        ELSE matching_recipes
         IN  matching_loop_no_continue(
                 Tail(recipes), query_lower,
                 IF ingredient_matches(query_lower, recipe)
                 THEN Append(by_name, recipe)
                 ELSE by_name)

RECURSIVE matching_loop(_, _, _)
matching_loop(recipes, query_lower, matching_recipes) ==
    IF recipes = <<>>
    THEN matching_recipes
    ELSE LET recipe == Head(recipes)
         IN  matching_loop(
                 Tail(recipes), query_lower,
                 IF name_matches(query_lower, recipe)
                 THEN Append(matching_recipes, recipe)
                 ELSE IF ingredient_matches(query_lower, recipe)
                      THEN Append(matching_recipes, recipe)
                      ELSE matching_recipes)

\* What a call rejected for an argument would hand to its caller.
InvalidArgument == [raised |-> "InvalidArgument"]

\* Whether a call is rejected for its limit: neither search_recipes nor
\* find_nearby_shops tests limit before the slice [:limit], and a slice
\* accepts every integer.
limit_raises(limit) == FALSE

\* The list returned for the limit.
search_recipes(db, query, has_diabetes, has_gout, has_celiac, limit) ==
    LET query_lower == strip(lower(query))
        matching_recipes == matching_loop(db, query_lower, <<>>)
        filtered_recipes ==
            filter_by_diagnosis(matching_recipes, has_diabetes, has_gout, has_celiac)
    IN  Slice(filtered_recipes, limit)

\* A bug the category listing must detect: a recipe without a category
\* counted as one of every category (r.get("category", category)).
category_recipes_default_match(db, category) ==
    SelectSeq(db, LAMBDA r : Get(r, "category", category) = category)

\* [r for r in recipes if r.get("category") == category]
category_recipes(db, category) ==
    SelectSeq(db, LAMBDA r : "category" \in DOMAIN r /\ r.category = category)

\* `if category:` is false for None and for the empty string
get_all_recipes(db, has_diabetes, has_gout, has_celiac, category, limit) ==
    LET recipes ==
            IF category # NoCategory /\ category # ""
            THEN category_recipes(db, category)
            ELSE db
    IN  Slice(filter_by_diagnosis(recipes, has_diabetes, has_gout, has_celiac),
              limit)

get_recipes_by_category(db, category, has_diabetes, has_gout, has_celiac) ==
    filter_by_diagnosis(category_recipes(db, category),
                        has_diabetes, has_gout, has_celiac)

\* A bug the random selection must detect: an index drawn from
\* 0..len(filtered) - 2, which never picks the last recipe.
get_random_recipe_never_last(db, has_diabetes, has_gout, has_celiac) ==
    LET filtered == filter_by_diagnosis(db, has_diabetes, has_gout, has_celiac)
    IN  IF filtered # <<>>
        THEN {filtered[i] : i \in 1..(Len(filtered) - 1)}
        ELSE {None}

\* The values get_random_recipe can return: random.choice(filtered) is any
\* item of a non-empty list, and None stands for the empty list.
get_random_recipe(db, has_diabetes, has_gout, has_celiac) ==
    LET filtered == filter_by_diagnosis(db, has_diabetes, has_gout, has_celiac)
    IN  IF filtered # <<>>
        THEN {filtered[i] : i \in 1..Len(filtered)}
        ELSE {None}

\* A bug the lookups must detect: `return recipe` after the loop, which
\* hands out the last recipe of the catalog when no id matches.
get_recipe_by_id_loop_variable(db, recipe_id) ==
    IF \E i \in 1..Len(db) : db[i].id = recipe_id
    THEN db[CHOOSE i \in 1..Len(db) :
                /\ db[i].id = recipe_id
                /\ \A j \in 1..(i - 1) : db[j].id # recipe_id]
    ELSE IF db # <<>> THEN db[Len(db)] ELSE None

get_recipe_by_id(db, recipe_id) ==
    IF \E i \in 1..Len(db) : db[i].id = recipe_id
    THEN db[CHOOSE i \in 1..Len(db) :
                /\ db[i].id = recipe_id
                /\ \A j \in 1..(i - 1) : db[j].id # recipe_id]
    ELSE None

(***************************************************************************)
(* The recipe catalogs and call arguments the model draws from.            *)
(***************************************************************************)
Ingredient(name) == [name |-> name, amount |-> 1, unit |-> "g"]

RecipePool ==
    { [id |-> "r_1", name |-> <<"A", "b">>, glycemic_index |-> 55,
       purines |-> 100, suitable_for_celiac |-> TRUE, category |-> "main",
       ingredients |-> <<Ingredient(<<"a", "b">>), Ingredient(<<"c">>)>>],
      [id |-> "r_2", name |-> <<"B", "a">>, glycemic_index |-> 56,
       purines |-> 20, suitable_for_celiac |-> TRUE, category |-> "main",
       ingredients |-> <<Ingredient(<<"C">>)>>],
      [id |-> "r_3", name |-> <<"c", " ", "a">>, glycemic_index |-> 20,
       purines |-> 101, suitable_for_celiac |-> TRUE, category |-> "salad",
       ingredients |-> <<>>],
      [id |-> "r_4", name |-> <<"B">>, glycemic_index |-> 20,
       purines |-> 20, suitable_for_celiac |-> FALSE, category |-> "salad",
       ingredients |-> <<Ingredient(<<"a", "B">>), Ingredient(<<"b">>)>>],
      [id |-> "r_5", name |-> <<"a">>],
      [id |-> "r_6", name |-> <<"b", "A">>, glycemic_index |-> 0,
       purines |-> 0, suitable_for_celiac |-> TRUE, category |-> "soup",
       ingredients |-> <<Ingredient(<<"c">>)>>] }

\* All sequences over S of length at most n.
RECURSIVE SeqsUpTo(_, _)
SeqsUpTo(S, n) ==
    IF n = 0
    THEN {<<>>}
    ELSE LET shorter == SeqsUpTo(S, n - 1)
         IN  shorter \cup {Append(s, x) : s \in shorter, x \in S}

Range(s) == {s[i] : i \in 1..Len(s)}

NoRepeat(s) == \A i, j \in 1..Len(s) : i # j => s[i] # s[j]

\* A catalog lists every recipe once (the ids are unique).
RecipeCatalogs == {s \in SeqsUpTo(RecipePool, MaxRecipes) : NoRepeat(s)}

Queries ==
    { <<>>, <<" ">>, <<"a">>, <<" ", "A", " ">>, <<"A", "B">>,
      <<"c">>, <<"a", " ">>, <<"c", " ", "a">>, <<"b", "b">> }

Categories == {"main", "salad", "dessert"}

Limits == (-1)..MaxLimit

(***************************************************************************)
(* Actions of the recipe service: one call each.                           *)
(***************************************************************************)
InitRecipe ==
    /\ recipes_db \in RecipeCatalogs
    /\ shops_db = <<>>
    /\ prices_db = <<>>
    /\ op = "idle"
    /\ args = None
    /\ result = None
    /\ FrontendIdle

Catalogs == <<recipes_db, shops_db, prices_db>>

\* The services are called one request at a time: a call starts when no
\* call is in progress, and Return hands its result to the caller.
Return ==
    /\ op # "idle"
    /\ op' = "idle"
    /\ args' = None
    /\ result' = None
    /\ UNCHANGED Catalogs
    /\ UNCHANGED Frontend

FilterByDiagnosis ==
    /\ op = "idle"
    /\ \E recipes \in SeqsUpTo(Range(recipes_db), MaxList),
       has_diabetes, has_gout, has_celiac \in BOOLEAN :
        /\ op' = "_filter_by_diagnosis"
        /\ args' = [recipes |-> recipes, has_diabetes |-> has_diabetes,
                    has_gout |-> has_gout, has_celiac |-> has_celiac]
        /\ result' = filter_by_diagnosis(recipes, has_diabetes, has_gout, has_celiac)
        /\ UNCHANGED Catalogs
    /\ UNCHANGED Frontend

SearchRecipes ==
    /\ op = "idle"
    /\ \E query \in Queries, has_diabetes, has_gout, has_celiac \in BOOLEAN,
       limit \in Limits :
        /\ op' = "search_recipes"
        /\ args' = [query |-> query, has_diabetes |-> has_diabetes,
                    has_gout |-> has_gout, has_celiac |-> has_celiac,
                    limit |-> limit]
        /\ result' = IF limit_raises(limit)
                     THEN InvalidArgument
                     ELSE search_recipes(recipes_db, query, has_diabetes,
                                         has_gout, has_celiac, limit)
        /\ UNCHANGED Catalogs
    /\ UNCHANGED Frontend

GetAllRecipes ==
    /\ op = "idle"
    /\ \E has_diabetes, has_gout, has_celiac \in BOOLEAN,
       category \in Categories \cup {NoCategory, ""}, limit \in Limits :
        /\ op' = "get_all_recipes"
        /\ args' = [has_diabetes |-> has_diabetes, has_gout |-> has_gout,
                    has_celiac |-> has_celiac, category |-> category,
                    limit |-> limit]
        /\ result' = get_all_recipes(recipes_db, has_diabetes, has_gout,
                                     has_celiac, category, limit)
        /\ UNCHANGED Catalogs
    /\ UNCHANGED Frontend

GetRecipesByCategory ==
    /\ op = "idle"
    /\ \E category \in Categories, has_diabetes, has_gout, has_celiac \in BOOLEAN :
        /\ op' = "get_recipes_by_category"
        /\ args' = [category |-> category, has_diabetes |-> has_diabetes,
                    has_gout |-> has_gout, has_celiac |-> has_celiac]
        /\ result' = get_recipes_by_category(recipes_db, category, has_diabetes,
                                             has_gout, has_celiac)
        /\ UNCHANGED Catalogs
    /\ UNCHANGED Frontend

GetRandomRecipe ==
    /\ op = "idle"
    /\ \E has_diabetes, has_gout, has_celiac \in BOOLEAN :
        /\ op' = "get_random_recipe"
        /\ args' = [has_diabetes |-> has_diabetes, has_gout |-> has_gout,
                    has_celiac |-> has_celiac]
        /\ result' \in get_random_recipe(recipes_db, has_diabetes, has_gout,
                                         has_celiac)
        /\ UNCHANGED Catalogs
    /\ UNCHANGED Frontend

GetRecipeById ==
    /\ op = "idle"
    /\ \E recipe_id \in {r.id : r \in RecipePool} :
        /\ op' = "get_recipe_by_id"
        /\ args' = [recipe_id |-> recipe_id]
        /\ result' = get_recipe_by_id(recipes_db, recipe_id)
        /\ UNCHANGED Catalogs
    /\ UNCHANGED Frontend

NextRecipe ==
    \/ FilterByDiagnosis
    \/ SearchRecipes
    \/ GetAllRecipes
    \/ GetRecipesByCategory
    \/ GetRandomRecipe
    \/ GetRecipeById
    \/ Return

SpecRecipe == InitRecipe /\ [][NextRecipe]_vars


(***************************************************************************)
(* Float arithmetic, in fixed point.                                       *)
(*                                                                         *)
(* A float is an integer count of 10^-8 (Scale), held in TLC's 32-bit      *)
(* integers; products and quotients are formed in two limbs of 10^4 so     *)
(* that no intermediate overflows.  Every operation works on magnitudes    *)
(* and restores the sign, as IEEE arithmetic does, and truncates its       *)
(* result.  Coordinates are counts of 10^-5 degree and distances counts of *)
(* 10^-4 km.                                                               *)
(***************************************************************************)
Limb == 10^4
Scale == Limb * Limb

Abs(x) == IF x < 0 THEN -x ELSE x
Sgn(x) == IF x > 0 THEN 1 ELSE IF x < 0 THEN -1 ELSE 0

\* a * b \div Scale and a * b % Scale, for a, b >= 0
MulAbs(a, b) ==
    LET a1 == a \div Limb
        a0 == a % Limb
        b1 == b \div Limb
        b0 == b % Limb
    IN  a1 * b1 + (a1 * b0) \div Limb + (a0 * b1) \div Limb
          + (((a1 * b0) % Limb) + ((a0 * b1) % Limb) + (a0 * b0) \div Limb)
                \div Limb

MulRem(a, b) ==
    LET a1 == a \div Limb
        a0 == a % Limb
        b1 == b \div Limb
        b0 == b % Limb
    IN  (((((a1 * b0) % Limb) + ((a0 * b1) % Limb)) % Limb) * Limb + a0 * b0)
            % Scale

\* x * y
FMul(x, y) == Sgn(x) * Sgn(y) * MulAbs(Abs(x), Abs(y))

\* x / 2
Half(x) == Sgn(x) * (Abs(x) \div 2)

\* The first n decimal digits of r / b, for 0 <= r < b
RECURSIVE DivDigits(_, _, _)
DivDigits(r, b, n) ==
    IF n = 0
    THEN 0
    ELSE ((r * 10) \div b) * 10^(n - 1) + DivDigits((r * 10) % b, b, n - 1)

\* x / y, for x >= 0 and y > 0
FDiv(x, y) == (x \div y) * Scale + DivDigits(x % y, y, 8)

\* math.sqrt(x), 0 <= x <= 1: the largest r with r * r <= x, by bisection
\* between lo (lo * lo <= x) and hi (hi * hi > x).
RECURSIVE SqrtBetween(_, _, _)
SqrtBetween(x, lo, hi) ==
    IF hi - lo <= 1
    THEN lo
    ELSE LET mid == (lo + hi) \div 2
             square == MulAbs(mid, mid)
         IN  IF square < x \/ (square = x /\ MulRem(mid, mid) = 0)
             THEN SqrtBetween(x, mid, hi)
             ELSE SqrtBetween(x, lo, mid)

Sqrt(x) == SqrtBetween(x, 0, Scale + 1)

\* math.sin(x), |x| <= pi: x * (1 - x^2/(2*3) * (1 - x^2/(4*5) * (1 - ...)))
RECURSIVE SinSeries(_, _, _)
SinSeries(x2, k, n) ==
    IF k > n
    THEN Scale
    ELSE Scale - FMul(x2 \div ((2 * k) * (2 * k + 1)), SinSeries(x2, k + 1, n))

Sin(x) == FMul(x, SinSeries(FMul(x, x), 1, 12))

\* math.cos(x), |x| <= pi: 1 - x^2/(1*2) * (1 - x^2/(3*4) * (1 - ...))
RECURSIVE CosSeries(_, _, _)
CosSeries(x2, k, n) ==
    IF k > n
    THEN Scale
    ELSE Scale - FMul(x2 \div ((2 * k - 1) * (2 * k)), CosSeries(x2, k + 1, n))

Cos(x) == CosSeries(FMul(x, x), 1, 12)

HalfPi == 157079633
QuarterPi == 78539816
\* tan(pi / 8)
TanEighthPi == 41421356

\* atan(u), 0 <= u <= tan(pi/8): u * (1 - u^2/3 + u^4/5 - ...)
RECURSIVE AtanSeries(_, _, _)
AtanSeries(u2, k, n) ==
    IF k > n
    THEN 0
    ELSE Scale \div (2 * k + 1) - FMul(u2, AtanSeries(u2, k + 1, n))

\* atan(t), 0 <= t <= 1: atan(t) = pi/4 - atan((1 - t) / (1 + t))
Atan(t) ==
    IF t > TanEighthPi
    THEN LET u == FDiv(Scale - t, Scale + t)
         IN  QuarterPi - FMul(u, AtanSeries(FMul(u, u), 0, 14))
    ELSE FMul(t, AtanSeries(FMul(t, t), 0, 14))

\* math.atan2(y, x) for y >= 0 and x >= 0, not both 0 (the two square
\* roots the distance formula passes)
Atan2(y, x) ==
    IF y = 0 THEN 0
    ELSE IF x = 0 THEN HalfPi
    ELSE IF y > x THEN HalfPi - Atan(FDiv(x, y))
    ELSE Atan(FDiv(y, x))

\* pi / 180, times 10^3 for the units of a coordinate
RadiansPerDegree == 1745329252

\* math.radians(degrees)
Radians(degrees) == Sgn(degrees) * MulAbs(Abs(degrees), RadiansPerDegree)

\* round(distance, 2): to the nearest 0.01 km, a tie to the even neighbour
Round2(distance) ==
    LET hundredths == distance \div 100
        rest == distance % 100
    IN  IF rest > 50 \/ (rest = 50 /\ hundredths % 2 = 1)
        THEN (hundredths + 1) * 100
        ELSE hundredths * 100

(***************************************************************************)
(* ShopService: distance and nearby shops                                  *)
(***************************************************************************)
EARTH_RADIUS_KM == 6371

\* What a call that ends with an uncaught ValueError hands to its caller.
ValueError == [raised |-> "ValueError"]

\* The haversine term `a` of the formula.
haversine_a(lat1, lon1, lat2, lon2) ==
    LET lat1_rad == Radians(lat1)
        lat2_rad == Radians(lat2)
        delta_lat == Radians(lat2 - lat1)
        delta_lon == Radians(lon2 - lon1)
        sin_lat == Sin(Half(delta_lat))
        sin_lon == Sin(Half(delta_lon))
    IN  FMul(sin_lat, sin_lat)
          + FMul(FMul(Cos(lat1_rad), Cos(lat2_rad)), FMul(sin_lon, sin_lon))

\* math.sqrt(x) raises ValueError ("math domain error") for x < 0.
sqrt_raises(x) == x < 0

\* The rounded products can make `a` exceed 1 when the two points are
\* nearly opposite on the globe, and math.sqrt(1 - a) then raises.
haversine_raises(lat1, lon1, lat2, lon2) ==
    sqrt_raises(Scale - haversine_a(lat1, lon1, lat2, lon2))

\* The distance returned when no ValueError is raised.
calculate_haversine_distance(lat1, lon1, lat2, lon2) ==
    LET a == haversine_a(lat1, lon1, lat2, lon2)
        c == 2 * Atan2(Sqrt(a), Sqrt(Scale - a))
    IN  FMul(EARTH_RADIUS_KM * Limb, c)

\* d[key] = value on a copy of dict d
With(d, key, value) ==
    [k \in DOMAIN d \cup {key} |-> IF k = key THEN value ELSE d[k]]

\* list.sort(key=lambda x: x[key]): a stable sort, here by insertion of each
\* item behind the items already placed whose key is not greater.
RECURSIVE InsertByKey(_, _, _)
InsertByKey(sorted, item, key) ==
    IF sorted = <<>>
    THEN <<item>>
    ELSE IF sorted[Len(sorted)][key] <= item[key]
         THEN Append(sorted, item)
         ELSE Append(InsertByKey(SubSeq(sorted, 1, Len(sorted) - 1), item, key),
                     sorted[Len(sorted)])

RECURSIVE SortLoop(_, _, _)
SortLoop(items, sorted, key) ==
    IF items = <<>>
    THEN sorted
    ELSE SortLoop(Tail(items), InsertByKey(sorted, Head(items), key), key)

sort(items, key) == SortLoop(items, <<>>, key)

\* A bug the radius claims must detect: the radius compared with the
\* rounded distance that is reported, not with the distance itself.
within_radius_rounded(distance, radius_km) == Round2(distance) <= radius_km

\* if distance <= radius_km
within_radius(distance, radius_km) == distance <= radius_km

RECURSIVE nearby_loop(_, _, _, _, _)
nearby_loop(shops, latitude, longitude, radius_km, shops_with_distance) ==
    IF shops = <<>>
    THEN shops_with_distance
    ELSE LET shop == Head(shops)
             distance == calculate_haversine_distance(
                             latitude, longitude, shop.latitude, shop.longitude)
         IN  nearby_loop(
                 Tail(shops), latitude, longitude, radius_km,
                 IF within_radius(distance, radius_km)
                 THEN Append(shops_with_distance,
                             With(shop, "distance_km", Round2(distance)))
                 ELSE shops_with_distance)

\* The loop has no try/except: a ValueError of the distance of any shop
\* ends find_nearby_shops.
find_nearby_raises(db, latitude, longitude) ==
    \E i \in 1..Len(db) :
        haversine_raises(latitude, longitude, db[i].latitude, db[i].longitude)

\* The list returned when no ValueError is raised.
find_nearby_shops(db, latitude, longitude, radius_km, limit) ==
    LET shops_with_distance ==
            sort(nearby_loop(db, latitude, longitude, radius_km, <<>>),
                 "distance_km")
    IN  Slice(shops_with_distance, limit)

\* A bug the catalog's immutability must detect: shop_data = shop, without
\* .copy(), so that shop_data is the catalog's own record.
shop_alias(shop) == [record |-> shop, is_catalog_record |-> TRUE]

\* shop_data = shop.copy(): a new dict with the items of shop; a write to it
\* is not a write to the catalog's record.
shop_copy(shop) == [record |-> shop, is_catalog_record |-> FALSE]

\* The catalog after find_nearby_shops: shop_data["distance_km"] = ... is
\* the only item assignment of the loop, and it changes the catalog's
\* record only if shop_data is that record.
shops_after_nearby(db, latitude, longitude, radius_km) ==
    [i \in 1..Len(db) |->
        LET shop == db[i]
            shop_data == shop_copy(shop)
        IN  IF /\ shop_data.is_catalog_record
               /\ within_radius(
                      calculate_haversine_distance(
                          latitude, longitude, shop.latitude, shop.longitude),
                      radius_km)
            THEN With(shop, "distance_km",
                      Round2(calculate_haversine_distance(
                                 latitude, longitude,
                                 shop.latitude, shop.longitude)))
            ELSE shop]

\* The first shop of the catalog with the id, or None.
get_shop_by_id(db, shop_id) ==
    IF \E i \in 1..Len(db) : db[i].id = shop_id
    THEN db[CHOOSE i \in 1..Len(db) :
                /\ db[i].id = shop_id
                /\ \A j \in 1..(i - 1) : db[j].id # shop_id]
    ELSE None

(***************************************************************************)
(* The shop catalogs and call arguments the model draws from.              *)
(***************************************************************************)
MaxShops == 2

Shop(id, name, latitude, longitude) ==
    [id |-> id, name |-> name, latitude |-> latitude, longitude |-> longitude,
     address |-> name, rating |-> 4]

\* Three shops within 10 m of each other on the meridian of the first
\* query point, one on the equator a quarter turn away, and one at the
\* first query point itself.
ShopList ==
    << Shop("shop_001", "P", 6000003, 0),
       Shop("shop_002", "M", 6000000, 0),
       Shop("shop_003", "D", 6000007, 0),
       Shop("shop_004", "V", 0, 9000000),
       Shop("shop_005", "X", 0, 0) >>

ShopPool == Range(ShopList)

ShopCatalogs == {s \in SeqsUpTo(ShopPool, MaxShops) : NoRepeat(s)}

QueryPoints == {<<0, 0>>, <<0, 4500000>>}

Radii == {0, 66716960, 66717000, 110000000}

\* Points in all four quadrants: the origin, Moscow, New York, Rio de
\* Janeiro, and a point of the Caribbean with the point opposite to it on
\* the globe.
Places ==
    { <<0, 0>>, <<5575580, 3761730>>, <<4071280, -7400600>>,
      <<-2290680, -4317290>>, <<1803385, -6801086>>, <<-1803385, 11198914>> }

InitGeo ==
    /\ recipes_db = <<>>
    /\ shops_db \in ShopCatalogs
    /\ prices_db = <<>>
    /\ op = "idle"
    /\ args = None
    /\ result = None
    /\ FrontendIdle

FindNearbyShops ==
    /\ op = "idle"
    /\ \E point \in QueryPoints, radius_km \in Radii, limit \in Limits :
        /\ op' = "find_nearby_shops"
        /\ args' = [latitude |-> point[1], longitude |-> point[2],
                    radius_km |-> radius_km, limit |-> limit]
        /\ result' = IF limit_raises(limit)
                     THEN InvalidArgument
                     ELSE IF find_nearby_raises(shops_db, point[1], point[2])
                     THEN ValueError
                     ELSE find_nearby_shops(shops_db, point[1], point[2],
                                            radius_km, limit)
        /\ shops_db' = shops_after_nearby(shops_db, point[1], point[2],
                                          radius_km)
        /\ UNCHANGED <<recipes_db, prices_db>>
    /\ UNCHANGED Frontend

GetShopById ==
    /\ op = "idle"
    /\ \E shop_id \in {shop.id : shop \in ShopPool} :
        /\ op' = "get_shop_by_id"
        /\ args' = [shop_id |-> shop_id]
        /\ result' = get_shop_by_id(shops_db, shop_id)
        /\ UNCHANGED Catalogs
    /\ UNCHANGED Frontend

CalculateHaversineDistance ==
    /\ op = "idle"
    /\ \E a, b \in Places :
        /\ op' = "_calculate_haversine_distance"
        /\ args' = [lat1 |-> a[1], lon1 |-> a[2], lat2 |-> b[1], lon2 |-> b[2]]
        /\ result' = IF haversine_raises(a[1], a[2], b[1], b[2])
                     THEN ValueError
                     ELSE calculate_haversine_distance(a[1], a[2], b[1], b[2])
        /\ UNCHANGED Catalogs
    /\ UNCHANGED Frontend

NextGeo ==
    \/ FindNearbyShops
    \/ GetShopById
    \/ CalculateHaversineDistance
    \/ Return

SpecGeo == InitGeo /\ [][NextGeo]_vars

(***************************************************************************)
(* ShopService: price lookup and comparison                                *)
(*                                                                         *)
(* A shop's price table (a dict in insertion order) is a sequence of       *)
(* <<name, price>> pairs; an Optional[float] is None or Some(price).       *)
(***************************************************************************)
Some(value) == [value |-> value]

\* The price of the first item, in table order, among the positions `hits`
\* where the loop's test is true; None when the loop ends without return.
FirstPrice(shop_prices, hits) ==
    IF hits = {}
    THEN None
    ELSE Some(shop_prices[CHOOSE i \in hits : \A j \in hits : i <= j][2])

\* A bug the price-match policy must detect: one pass over the table that
\* returns the first key matching exactly or by substring.
find_product_price_single_pass(shop_prices, product_name) ==
    LET product_lower == lower(product_name)
        either == {i \in 1..Len(shop_prices) :
                       \/ lower(shop_prices[i][1]) = product_lower
                       \/ StrIn(product_lower, lower(shop_prices[i][1]))
                       \/ StrIn(lower(shop_prices[i][1]), product_lower)}
    IN  FirstPrice(shop_prices, either)

find_product_price(shop_prices, product_name) ==
    LET product_lower == lower(product_name)
        exact == {i \in 1..Len(shop_prices) :
                      lower(shop_prices[i][1]) = product_lower}
        partial == {i \in 1..Len(shop_prices) :
                        \/ StrIn(product_lower, lower(shop_prices[i][1]))
                        \/ StrIn(lower(shop_prices[i][1]), product_lower)}
    IN  IF exact # {}
        THEN FirstPrice(shop_prices, exact)
        ELSE FirstPrice(shop_prices, partial)

\* The dict both price operations build for a shop and its price.
price_entry(shop, price) ==
    [shop_id |-> shop.id, shop_name |-> shop.name,
     shop_address |-> shop.address, price |-> price, rating |-> shop.rating]

\* A bug the comparison claims must detect: a shop without a match listed
\* with the price 0.
RECURSIVE compare_loop_lists_unmatched(_, _, _, _)
compare_loop_lists_unmatched(shops, prices, product_name, results) ==
    IF shops = <<>>
    THEN results
    ELSE LET shop == Head(shops)
             shop_prices == Get(prices, shop.id, <<>>)
             price == find_product_price(shop_prices, product_name)
         IN  compare_loop_lists_unmatched(
                 Tail(shops), prices, product_name,
                 Append(results,
                        price_entry(shop, IF price # None THEN price.value ELSE 0)))

RECURSIVE compare_loop(_, _, _, _)
compare_loop(shops, prices, product_name, results) ==
    IF shops = <<>>
    THEN results
    ELSE LET shop == Head(shops)
             shop_prices == Get(prices, shop.id, <<>>)
             price == find_product_price(shop_prices, product_name)
         IN  compare_loop(
                 Tail(shops), prices, product_name,
                 IF price # None
                 THEN Append(results, price_entry(shop, price.value))
                 ELSE results)

\* A bug the comparison claims must detect: the entries left in the order of
\* the shops.
compare_prices_unsorted(shops, prices, product_name) ==
    compare_loop(shops, prices, product_name, <<>>)

compare_prices(shops, prices, product_name) ==
    sort(compare_loop(shops, prices, product_name, <<>>), "price")

\* A bug the cheapest-shop claims must detect: `price <= best_price`, which
\* lets a later shop with the same price replace the best one.
RECURSIVE cheapest_loop_later_tie(_, _, _, _)
cheapest_loop_later_tie(shops, prices, product_name, best_shop) ==
    IF shops = <<>>
    THEN best_shop
    ELSE LET shop == Head(shops)
             shop_prices == Get(prices, shop.id, <<>>)
             price == find_product_price(shop_prices, product_name)
         IN  cheapest_loop_later_tie(
                 Tail(shops), prices, product_name,
                 IF price # None
                        /\ (best_shop = None \/ price.value <= best_shop.price)
                 THEN price_entry(shop, price.value)
                 ELSE best_shop)

\* best_price is float("inf") while best_shop is None and best_shop's price
\* afterwards.
RECURSIVE cheapest_loop(_, _, _, _)
cheapest_loop(shops, prices, product_name, best_shop) ==
    IF shops = <<>>
    THEN best_shop
    ELSE LET shop == Head(shops)
             shop_prices == Get(prices, shop.id, <<>>)
             price == find_product_price(shop_prices, product_name)
         IN  cheapest_loop(
                 Tail(shops), prices, product_name,
                 IF price # None
                        /\ (best_shop = None \/ price.value < best_shop.price)
                 THEN price_entry(shop, price.value)
                 ELSE best_shop)

find_cheapest_shop_for_product(shops, prices, product_name) ==
    cheapest_loop(shops, prices, product_name, None)

(***************************************************************************)
(* ShopService: the price of a recipe's ingredients                        *)
(*                                                                         *)
(* prices_by_shop (a dict in insertion order) is a sequence of             *)
(* <<shop_id, entry>> pairs.                                               *)
(***************************************************************************)
\* d[key] = value: a key the dict already holds keeps its place.
DictSet(d, key, value) ==
    IF \E i \in 1..Len(d) : d[i][1] = key
    THEN [i \in 1..Len(d) |-> IF d[i][1] = key THEN <<key, value>> ELSE d[i]]
    ELSE Append(d, <<key, value>>)

\* A bug the recipe-price claims must detect: an ingredient without a match
\* ends the shop's loop (`break`), so later ingredients are not priced.
RECURSIVE ingredients_loop_stops_at_miss(_, _, _)
ingredients_loop_stops_at_miss(shop_prices, ingredients, acc) ==
    IF ingredients = <<>>
    THEN acc
    ELSE LET ingredient_name == Get(Head(ingredients), "name", <<>>)
             price == find_product_price(shop_prices, ingredient_name)
         IN  IF price # None
             THEN ingredients_loop_stops_at_miss(
                      shop_prices, Tail(ingredients),
                      [total_price |-> acc.total_price + price.value,
                       found_count |-> acc.found_count + 1,
                       items_prices |->
                           Append(acc.items_prices,
                                  [name |-> ingredient_name,
                                   price |-> price.value])])
             ELSE acc

\* A bug the claim on unnamed ingredients must detect: an ingredient
\* without a name skipped (`if not ingredient_name: continue`).
RECURSIVE ingredients_loop_skips_unnamed(_, _, _)
ingredients_loop_skips_unnamed(shop_prices, ingredients, acc) ==
    IF ingredients = <<>>
    THEN acc
    ELSE LET ingredient_name == Get(Head(ingredients), "name", <<>>)
             price == find_product_price(shop_prices, ingredient_name)
         IN  ingredients_loop_skips_unnamed(
                 shop_prices, Tail(ingredients),
                 IF ingredient_name # <<>> /\ price # None
                 THEN [total_price |-> acc.total_price + price.value,
                       found_count |-> acc.found_count + 1,
                       items_prices |->
                           Append(acc.items_prices,
                                  [name |-> ingredient_name,
                                   price |-> price.value])]
                 ELSE acc)

\* The inner loop: acc holds total_price, found_count and items_prices.
RECURSIVE ingredients_loop(_, _, _)
ingredients_loop(shop_prices, ingredients, acc) ==
    IF ingredients = <<>>
    THEN acc
    ELSE LET ingredient_name == Get(Head(ingredients), "name", <<>>)
             price == find_product_price(shop_prices, ingredient_name)
         IN  ingredients_loop(
                 shop_prices, Tail(ingredients),
                 IF price # None
                 THEN [total_price |-> acc.total_price + price.value,
                       found_count |-> acc.found_count + 1,
                       items_prices |->
                           Append(acc.items_prices,
                                  [name |-> ingredient_name,
                                   price |-> price.value])]
                 ELSE acc)

RECURSIVE recipe_prices_loop(_, _, _, _)
recipe_prices_loop(shops, prices, recipe_ingredients, prices_by_shop) ==
    IF shops = <<>>
    THEN prices_by_shop
    ELSE LET shop == Head(shops)
             shop_prices == Get(prices, shop.id, <<>>)
             priced == ingredients_loop(
                           shop_prices, recipe_ingredients,
                           [total_price |-> 0, found_count |-> 0,
                            items_prices |-> <<>>])
         IN  recipe_prices_loop(
                 Tail(shops), prices, recipe_ingredients,
                 DictSet(prices_by_shop, shop.id,
                         [shop_name |-> shop.name,
                          shop_address |-> shop.address,
                          total_price |-> priced.total_price,
                          found_items |-> priced.found_count,
                          total_items |-> Len(recipe_ingredients),
                          items |-> priced.items_prices,
                          rating |-> shop.rating]))

get_prices_for_recipe(shops, prices, recipe_ingredients) ==
    recipe_prices_loop(shops, prices, recipe_ingredients, <<>>)

\* A bug the cheapest-shop rule must detect: the key of min() is the plain
\* total_price, so a shop that prices nothing (total 0) is the minimum.
recipe_price_key_plain(entry) == Some(entry.total_price)

\* key=lambda x: x[1]["total_price"] if x[1]["total_price"] > 0 else
\* float("inf"); None stands for float("inf").
recipe_price_key(entry) ==
    IF entry.total_price > 0 THEN Some(entry.total_price) ELSE None

\* a < b on keys: nothing is greater than float("inf").
KeyLess(a, b) == a # None /\ (b = None \/ a.value < b.value)

\* min(items, key=...): the first item whose key no other item's key is
\* less than.
RECURSIVE min_loop(_, _)
min_loop(items, best) ==
    IF items = <<>>
    THEN best
    ELSE min_loop(Tail(items),
                  IF KeyLess(recipe_price_key(Head(items)[2]),
                             recipe_price_key(best[2]))
                  THEN Head(items)
                  ELSE best)

find_cheapest_shop_for_recipe(shops, prices, recipe_ingredients) ==
    LET prices_by_shop == get_prices_for_recipe(shops, prices, recipe_ingredients)
    IN  IF prices_by_shop = <<>>
        THEN None
        ELSE LET cheapest == min_loop(Tail(prices_by_shop), Head(prices_by_shop))
                 shop_id == cheapest[1]
                 shop_data == cheapest[2]
             IN  With(shop_data, "shop_id", shop_id)

(***************************************************************************)
(* The price tables and call arguments the model draws from.               *)
(***************************************************************************)
MaxPricedShops == 3

\* Tables whose keys match a product exactly, only in another letter case,
\* as a part of the key, as a key that is a part of the product, or not at
\* all, in both orders.
PriceTables ==
    { << <<(<<"a", "b">>), 5>> >>,
      << <<(<<"a">>), 7>>, <<(<<"A", "B">>), 5>> >>,
      << <<(<<"a", "b", "c">>), 3>>, <<(<<"b">>), 7>> >>,
      << <<(<<"A", "B">>), 7>>, <<(<<"a", "b">>), 3>> >>,
      << <<(<<"c">>), 5>> >>,
      << >> }

Products == { <<"a", "b">>, <<"A", "B">>, <<"b">>, <<"x">>, <<>> }

\* Ingredient lists: empty, priced and unpriced ingredients in both orders,
\* the same ingredient twice, an ingredient record without a name, and an
\* ingredient with an empty name.
IngredientLists ==
    { << >>,
      << Ingredient(<<"a", "b">>) >>,
      << Ingredient(<<"x">>) >>,
      << Ingredient(<<"x">>), Ingredient(<<"y">>) >>,
      << Ingredient(<<"a", "b">>), Ingredient(<<"x">>) >>,
      << Ingredient(<<"x">>), Ingredient(<<"A", "B">>), Ingredient(<<"b">>) >>,
      << Ingredient(<<"b">>), Ingredient(<<"b">>) >>,
      << [amount |-> 1, unit |-> "g"], Ingredient(<<"c">>) >>,
      << Ingredient(<<"x">>), Ingredient(<<>>) >> }

\* Some of the catalog's shops have a price table, in any combination.
PriceCatalogs(shops) ==
    UNION { [ids -> PriceTables] : ids \in SUBSET {shops[i].id : i \in 1..Len(shops)} }

InitPrice ==
    /\ recipes_db = <<>>
    /\ \E n \in 0..MaxPricedShops : shops_db = SubSeq(ShopList, 1, n)
    /\ prices_db \in PriceCatalogs(shops_db)
    /\ op = "idle"
    /\ args = None
    /\ result = None
    /\ FrontendIdle

FindProductPrice ==
    /\ op = "idle"
    /\ \E shop_id \in DOMAIN prices_db, product_name \in Products :
        /\ op' = "_find_product_price"
        /\ args' = [shop_prices |-> prices_db[shop_id],
                    product_name |-> product_name]
        /\ result' = find_product_price(prices_db[shop_id], product_name)
        /\ UNCHANGED Catalogs
    /\ UNCHANGED Frontend

ComparePrices ==
    /\ op = "idle"
    /\ \E product_name \in Products :
        /\ op' = "compare_prices"
        /\ args' = [product_name |-> product_name]
        /\ result' = compare_prices(shops_db, prices_db, product_name)
        /\ UNCHANGED Catalogs
    /\ UNCHANGED Frontend

FindCheapestShopForProduct ==
    /\ op = "idle"
    /\ \E product_name \in Products :
        /\ op' = "find_cheapest_shop_for_product"
        /\ args' = [product_name |-> product_name]
        /\ result' = find_cheapest_shop_for_product(shops_db, prices_db,
                                                    product_name)
        /\ UNCHANGED Catalogs
    /\ UNCHANGED Frontend

GetPricesForRecipe ==
    /\ op = "idle"
    /\ \E recipe_ingredients \in IngredientLists :
        /\ op' = "get_prices_for_recipe"
        /\ args' = [recipe_ingredients |-> recipe_ingredients]
        /\ result' = get_prices_for_recipe(shops_db, prices_db,
                                           recipe_ingredients)
        /\ UNCHANGED Catalogs
    /\ UNCHANGED Frontend

FindCheapestShopForRecipe ==
    /\ op = "idle"
    /\ \E recipe_ingredients \in IngredientLists :
        /\ op' = "find_cheapest_shop_for_recipe"
        /\ args' = [recipe_ingredients |-> recipe_ingredients]
        /\ result' = find_cheapest_shop_for_recipe(shops_db, prices_db,
                                                   recipe_ingredients)
        /\ UNCHANGED Catalogs
    /\ UNCHANGED Frontend

NextPrice ==
    \/ FindProductPrice
    \/ GetPricesForRecipe
    \/ FindCheapestShopForRecipe
    \/ ComparePrices
    \/ FindCheapestShopForProduct
    \/ Return

SpecPrice == InitPrice /\ [][NextPrice]_vars

(***************************************************************************)
(* Both services over one load of the catalogs, called in any order.       *)
(***************************************************************************)
RecipeWithId(id) == CHOOSE r \in RecipePool : r.id = id

LoadedRecipes ==
    { << RecipeWithId("r_1"), RecipeWithId("r_5"), RecipeWithId("r_3") >>,
      << RecipeWithId("r_4"), RecipeWithId("r_2") >> }

\* Every shop has a price table, or only the first one.
LoadedPrices(shops) ==
    { [id \in {shops[i].id : i \in 1..Len(shops)} |->
           << <<(<<"a">>), 7>>, <<(<<"A", "B">>), 5>> >>],
      [id \in {shops[1].id} |-> << <<(<<"a", "b", "c">>), 3>>, <<(<<"b">>), 7>> >>] }

InitService ==
    /\ recipes_db \in LoadedRecipes
    /\ \E n \in 1..MaxShops : shops_db = SubSeq(ShopList, 1, n)
    /\ prices_db \in LoadedPrices(shops_db)
    /\ op = "idle"
    /\ args = None
    /\ result = None
    /\ FrontendIdle

NextService ==
    \/ FilterByDiagnosis
    \/ SearchRecipes
    \/ GetAllRecipes
    \/ GetRecipesByCategory
    \/ GetRandomRecipe
    \/ GetRecipeById
    \/ FindNearbyShops
    \/ GetShopById
    \/ CalculateHaversineDistance
    \/ FindProductPrice
    \/ GetPricesForRecipe
    \/ FindCheapestShopForRecipe
    \/ ComparePrices
    \/ FindCheapestShopForProduct
    \/ Return

SpecService == InitService /\ [][NextService]_vars

(***************************************************************************)
(* The catalogs embedded in the source: RECIPES_DATABASE, MOCK_SHOPS and   *)
(* MOCK_PRICES. A letter outside ASCII is written as "u" and its code      *)
(* point, a latitude or longitude in 10^-5 degree, a rating in tenths. Of  *)
(* a recipe the fields the services read are kept: the description, the    *)
(* nutrition facts, the amounts and the instructions are left out.         *)
(***************************************************************************)
RECIPES_DATABASE ==
    <<
      \* Kuritsa s brokkoli na paru
      [id |-> "r_001",
       name |->
          <<"u041a", "u0443", "u0440", "u0438", "u0446", "u0430", " ",
            "u0441", " ", "u0431", "u0440", "u043e", "u043a", "u043a",
            "u043e", "u043b", "u0438", " ", "u043d", "u0430", " ", "u043f",
            "u0430", "u0440", "u0443">>,
       category |-> "main",
       glycemic_index |-> 35, purines |-> 120,
       suitable_for_diabetes |-> TRUE, suitable_for_gout |-> FALSE,
       suitable_for_celiac |-> TRUE,
       ingredients |->
         << \* Kurinoe file
            [name |->
                <<"u041a", "u0443", "u0440", "u0438", "u043d", "u043e",
                  "u0435", " ", "u0444", "u0438", "u043b", "u0435">>],
            \* Brokkoli
            [name |->
                <<"u0411", "u0440", "u043e", "u043a", "u043a", "u043e",
                  "u043b", "u0438">>],
            \* Olivkovoe maslo
            [name |->
                <<"u041e", "u043b", "u0438", "u0432", "u043a", "u043e",
                  "u0432", "u043e", "u0435", " ", "u043c", "u0430",
                  "u0441", "u043b", "u043e">>],
            \* Limonnyy sok
            [name |->
                <<"u041b", "u0438", "u043c", "u043e", "u043d", "u043d",
                  "u044b", "u0439", " ", "u0441", "u043e", "u043a">>],
            \* Sol', perets
            [name |->
                <<"u0421", "u043e", "u043b", "u044c", ",", " ", "u043f",
                  "u0435", "u0440", "u0435", "u0446">>] >>],
      \* Salat Sredizemnomorskiy
      [id |-> "r_002",
       name |->
          <<"u0421", "u0430", "u043b", "u0430", "u0442", " ", "u0421",
            "u0440", "u0435", "u0434", "u0438", "u0437", "u0435", "u043c",
            "u043d", "u043e", "u043c", "u043e", "u0440", "u0441", "u043a",
            "u0438", "u0439">>,
       category |-> "salad",
       glycemic_index |-> 20, purines |-> 15,
       suitable_for_diabetes |-> TRUE, suitable_for_gout |-> TRUE,
       suitable_for_celiac |-> TRUE,
       ingredients |->
         << \* Pomidory cherri
            [name |->
                <<"u041f", "u043e", "u043c", "u0438", "u0434", "u043e",
                  "u0440", "u044b", " ", "u0447", "u0435", "u0440",
                  "u0440", "u0438">>],
            \* Ogurets
            [name |->
                <<"u041e", "u0433", "u0443", "u0440", "u0435", "u0446">>],
            \* Bolgarskiy perets
            [name |->
                <<"u0411", "u043e", "u043b", "u0433", "u0430", "u0440",
                  "u0441", "u043a", "u0438", "u0439", " ", "u043f",
                  "u0435", "u0440", "u0435", "u0446">>],
            \* Krasnyy luk
            [name |->
                <<"u041a", "u0440", "u0430", "u0441", "u043d", "u044b",
                  "u0439", " ", "u043b", "u0443", "u043a">>],
            \* Masliny
            [name |->
                <<"u041c", "u0430", "u0441", "u043b", "u0438", "u043d",
                  "u044b">>],
            \* Olivkovoe maslo Extra Virgin
            [name |->
                <<"u041e", "u043b", "u0438", "u0432", "u043a", "u043e",
                  "u0432", "u043e", "u0435", " ", "u043c", "u0430",
                  "u0441", "u043b", "u043e", " ", "E", "x", "t", "r", "a",
                  " ", "V", "i", "r", "g", "i", "n">>],
            \* Limonnyy sok
            [name |->
                <<"u041b", "u0438", "u043c", "u043e", "u043d", "u043d",
                  "u044b", "u0439", " ", "u0441", "u043e", "u043a">>],
            \* Oregano sushyonyy
            [name |->
                <<"u041e", "u0440", "u0435", "u0433", "u0430", "u043d",
                  "u043e", " ", "u0441", "u0443", "u0448", "u0451",
                  "u043d", "u044b", "u0439">>] >>],
      \* Grechnevaya kasha s ovoshchami
      [id |-> "r_003",
       name |->
          <<"u0413", "u0440", "u0435", "u0447", "u043d", "u0435", "u0432",
            "u0430", "u044f", " ", "u043a", "u0430", "u0448", "u0430", " ",
            "u0441", " ", "u043e", "u0432", "u043e", "u0449", "u0430",
            "u043c", "u0438">>,
       category |-> "main",
       glycemic_index |-> 40, purines |-> 25,
       suitable_for_diabetes |-> TRUE, suitable_for_gout |-> TRUE,
       suitable_for_celiac |-> TRUE,
       ingredients |->
         << \* Grechnevaya krupa
            [name |->
                <<"u0413", "u0440", "u0435", "u0447", "u043d", "u0435",
                  "u0432", "u0430", "u044f", " ", "u043a", "u0440",
                  "u0443", "u043f", "u0430">>],
            \* Morkov'
            [name |->
                <<"u041c", "u043e", "u0440", "u043a", "u043e", "u0432",
                  "u044c">>],
            \* Luk repchatyy
            [name |->
                <<"u041b", "u0443", "u043a", " ", "u0440", "u0435",
                  "u043f", "u0447", "u0430", "u0442", "u044b", "u0439">>],
            \* Kabachok
            [name |->
                <<"u041a", "u0430", "u0431", "u0430", "u0447", "u043e",
                  "u043a">>],
            \* Olivkovoe maslo
            [name |->
                <<"u041e", "u043b", "u0438", "u0432", "u043a", "u043e",
                  "u0432", "u043e", "u0435", " ", "u043c", "u0430",
                  "u0441", "u043b", "u043e">>],
            \* Voda
            [name |->
                <<"u0412", "u043e", "u0434", "u0430">>] >>],
      \* Zapechyonnaya ryba s travami
      [id |-> "r_004",
       name |->
          <<"u0417", "u0430", "u043f", "u0435", "u0447", "u0451", "u043d",
            "u043d", "u0430", "u044f", " ", "u0440", "u044b", "u0431",
            "u0430", " ", "u0441", " ", "u0442", "u0440", "u0430", "u0432",
            "u0430", "u043c", "u0438">>,
       category |-> "main",
       glycemic_index |-> 0, purines |-> 80,
       suitable_for_diabetes |-> TRUE, suitable_for_gout |-> TRUE,
       suitable_for_celiac |-> TRUE,
       ingredients |->
         << \* Treska (file)
            [name |->
                <<"u0422", "u0440", "u0435", "u0441", "u043a", "u0430",
                  " ", "(", "u0444", "u0438", "u043b", "u0435", ")">>],
            \* Limon
            [name |->
                <<"u041b", "u0438", "u043c", "u043e", "u043d">>],
            \* Chesnok
            [name |->
                <<"u0427", "u0435", "u0441", "u043d", "u043e", "u043a">>],
            \* Rozmarin svezhiy
            [name |->
                <<"u0420", "u043e", "u0437", "u043c", "u0430", "u0440",
                  "u0438", "u043d", " ", "u0441", "u0432", "u0435",
                  "u0436", "u0438", "u0439">>],
            \* Tim'yan svezhiy
            [name |->
                <<"u0422", "u0438", "u043c", "u044c", "u044f", "u043d",
                  " ", "u0441", "u0432", "u0435", "u0436", "u0438", "u0439">>],
            \* Olivkovoe maslo
            [name |->
                <<"u041e", "u043b", "u0438", "u0432", "u043a", "u043e",
                  "u0432", "u043e", "u0435", " ", "u043c", "u0430",
                  "u0441", "u043b", "u043e">>] >>],
      \* Ovsyanka s yagodami i orekhami
      [id |-> "r_005",
       name |->
          <<"u041e", "u0432", "u0441", "u044f", "u043d", "u043a", "u0430",
            " ", "u0441", " ", "u044f", "u0433", "u043e", "u0434", "u0430",
            "u043c", "u0438", " ", "u0438", " ", "u043e", "u0440", "u0435",
            "u0445", "u0430", "u043c", "u0438">>,
       category |-> "breakfast",
       glycemic_index |-> 45, purines |-> 20,
       suitable_for_diabetes |-> TRUE, suitable_for_gout |-> TRUE,
       suitable_for_celiac |-> FALSE,
       ingredients |->
         << \* Ovsyanye khlop'ya (dolgoy varki)
            [name |->
                <<"u041e", "u0432", "u0441", "u044f", "u043d", "u044b",
                  "u0435", " ", "u0445", "u043b", "u043e", "u043f",
                  "u044c", "u044f", " ", "(", "u0434", "u043e", "u043b",
                  "u0433", "u043e", "u0439", " ", "u0432", "u0430",
                  "u0440", "u043a", "u0438", ")">>],
            \* Voda ili moloko
            [name |->
                <<"u0412", "u043e", "u0434", "u0430", " ", "u0438",
                  "u043b", "u0438", " ", "u043c", "u043e", "u043b",
                  "u043e", "u043a", "u043e">>],
            \* Chernika
            [name |->
                <<"u0427", "u0435", "u0440", "u043d", "u0438", "u043a",
                  "u0430">>],
            \* Malina
            [name |->
                <<"u041c", "u0430", "u043b", "u0438", "u043d", "u0430">>],
            \* Gretskie orekhi
            [name |->
                <<"u0413", "u0440", "u0435", "u0446", "u043a", "u0438",
                  "u0435", " ", "u043e", "u0440", "u0435", "u0445", "u0438">>],
            \* Myod (optsional'no)
            [name |->
                <<"u041c", "u0451", "u0434", " ", "(", "u043e", "u043f",
                  "u0446", "u0438", "u043e", "u043d", "u0430", "u043b",
                  "u044c", "u043d", "u043e", ")">>] >>],
      \* Tvorozhnaya zapekanka bez sakhara
      [id |-> "r_006",
       name |->
          <<"u0422", "u0432", "u043e", "u0440", "u043e", "u0436", "u043d",
            "u0430", "u044f", " ", "u0437", "u0430", "u043f", "u0435",
            "u043a", "u0430", "u043d", "u043a", "u0430", " ", "u0431",
            "u0435", "u0437", " ", "u0441", "u0430", "u0445", "u0430",
            "u0440", "u0430">>,
       category |-> "dessert",
       glycemic_index |-> 30, purines |-> 10,
       suitable_for_diabetes |-> TRUE, suitable_for_gout |-> TRUE,
       suitable_for_celiac |-> FALSE,
       ingredients |->
         << \* Tvorog 5%
            [name |->
                <<"u0422", "u0432", "u043e", "u0440", "u043e", "u0433",
                  " ", "5", "%">>],
            \* Yaytso
            [name |->
                <<"u042f", "u0439", "u0446", "u043e">>],
            \* Muka risovaya
            [name |->
                <<"u041c", "u0443", "u043a", "u0430", " ", "u0440",
                  "u0438", "u0441", "u043e", "u0432", "u0430", "u044f">>],
            \* Steviya
            [name |->
                <<"u0421", "u0442", "u0435", "u0432", "u0438", "u044f">>],
            \* Vanilin
            [name |->
                <<"u0412", "u0430", "u043d", "u0438", "u043b", "u0438",
                  "u043d">>] >>],
      \* Sup-pyure iz tykvy
      [id |-> "r_007",
       name |->
          <<"u0421", "u0443", "u043f", "-", "u043f", "u044e", "u0440",
            "u0435", " ", "u0438", "u0437", " ", "u0442", "u044b", "u043a",
            "u0432", "u044b">>,
       category |-> "soup",
       glycemic_index |-> 65, purines |-> 10,
       suitable_for_diabetes |-> TRUE, suitable_for_gout |-> TRUE,
       suitable_for_celiac |-> TRUE,
       ingredients |->
         << \* Tykva
            [name |->
                <<"u0422", "u044b", "u043a", "u0432", "u0430">>],
            \* Luk repchatyy
            [name |->
                <<"u041b", "u0443", "u043a", " ", "u0440", "u0435",
                  "u043f", "u0447", "u0430", "u0442", "u044b", "u0439">>],
            \* Imbir' svezhiy
            [name |->
                <<"u0418", "u043c", "u0431", "u0438", "u0440", "u044c",
                  " ", "u0441", "u0432", "u0435", "u0436", "u0438", "u0439">>],
            \* Ovoshchnoy bul'on
            [name |->
                <<"u041e", "u0432", "u043e", "u0449", "u043d", "u043e",
                  "u0439", " ", "u0431", "u0443", "u043b", "u044c",
                  "u043e", "u043d">>],
            \* Olivkovoe maslo
            [name |->
                <<"u041e", "u043b", "u0438", "u0432", "u043a", "u043e",
                  "u0432", "u043e", "u0435", " ", "u043c", "u0430",
                  "u0441", "u043b", "u043e">>],
            \* Tykvennye semechki
            [name |->
                <<"u0422", "u044b", "u043a", "u0432", "u0435", "u043d",
                  "u043d", "u044b", "u0435", " ", "u0441", "u0435",
                  "u043c", "u0435", "u0447", "u043a", "u0438">>] >>],
      \* Kinoa s ovoshchami
      [id |-> "r_008",
       name |->
          <<"u041a", "u0438", "u043d", "u043e", "u0430", " ", "u0441", " ",
            "u043e", "u0432", "u043e", "u0449", "u0430", "u043c", "u0438">>,
       category |-> "main",
       glycemic_index |-> 35, purines |-> 20,
       suitable_for_diabetes |-> TRUE, suitable_for_gout |-> TRUE,
       suitable_for_celiac |-> TRUE,
       ingredients |->
         << \* Kinoa
            [name |->
                <<"u041a", "u0438", "u043d", "u043e", "u0430">>],
            \* Bolgarskiy perets
            [name |->
                <<"u0411", "u043e", "u043b", "u0433", "u0430", "u0440",
                  "u0441", "u043a", "u0438", "u0439", " ", "u043f",
                  "u0435", "u0440", "u0435", "u0446">>],
            \* Pomidory
            [name |->
                <<"u041f", "u043e", "u043c", "u0438", "u0434", "u043e",
                  "u0440", "u044b">>],
            \* Ogurets
            [name |->
                <<"u041e", "u0433", "u0443", "u0440", "u0435", "u0446">>],
            \* Petrushka
            [name |->
                <<"u041f", "u0435", "u0442", "u0440", "u0443", "u0448",
                  "u043a", "u0430">>],
            \* Limonnyy sok
            [name |->
                <<"u041b", "u0438", "u043c", "u043e", "u043d", "u043d",
                  "u044b", "u0439", " ", "u0441", "u043e", "u043a">>],
            \* Olivkovoe maslo
            [name |->
                <<"u041e", "u043b", "u0438", "u0432", "u043a", "u043e",
                  "u0432", "u043e", "u0435", " ", "u043c", "u0430",
                  "u0441", "u043b", "u043e">>] >>],
      \* Omlet s zelen'yu i syrom
      [id |-> "r_009",
       name |->
          <<"u041e", "u043c", "u043b", "u0435", "u0442", " ", "u0441", " ",
            "u0437", "u0435", "u043b", "u0435", "u043d", "u044c", "u044e",
            " ", "u0438", " ", "u0441", "u044b", "u0440", "u043e", "u043c">>,
       category |-> "breakfast",
       glycemic_index |-> 0, purines |-> 15,
       suitable_for_diabetes |-> TRUE, suitable_for_gout |-> TRUE,
       suitable_for_celiac |-> TRUE,
       ingredients |->
         << \* Yaytsa
            [name |->
                <<"u042f", "u0439", "u0446", "u0430">>],
            \* Moloko
            [name |->
                <<"u041c", "u043e", "u043b", "u043e", "u043a", "u043e">>],
            \* Syr tvyordyy
            [name |->
                <<"u0421", "u044b", "u0440", " ", "u0442", "u0432",
                  "u0451", "u0440", "u0434", "u044b", "u0439">>],
            \* Shpinat
            [name |->
                <<"u0428", "u043f", "u0438", "u043d", "u0430", "u0442">>],
            \* Ukrop
            [name |->
                <<"u0423", "u043a", "u0440", "u043e", "u043f">>],
            \* Olivkovoe maslo
            [name |->
                <<"u041e", "u043b", "u0438", "u0432", "u043a", "u043e",
                  "u0432", "u043e", "u0435", " ", "u043c", "u0430",
                  "u0441", "u043b", "u043e">>] >>],
      \* Fasolevyy salat s tuntsom
      [id |-> "r_010",
       name |->
          <<"u0424", "u0430", "u0441", "u043e", "u043b", "u0435", "u0432",
            "u044b", "u0439", " ", "u0441", "u0430", "u043b", "u0430",
            "u0442", " ", "u0441", " ", "u0442", "u0443", "u043d", "u0446",
            "u043e", "u043c">>,
       category |-> "salad",
       glycemic_index |-> 25, purines |-> 150,
       suitable_for_diabetes |-> TRUE, suitable_for_gout |-> FALSE,
       suitable_for_celiac |-> TRUE,
       ingredients |->
         << \* Tunets konservirovannyy
            [name |->
                <<"u0422", "u0443", "u043d", "u0435", "u0446", " ",
                  "u043a", "u043e", "u043d", "u0441", "u0435", "u0440",
                  "u0432", "u0438", "u0440", "u043e", "u0432", "u0430",
                  "u043d", "u043d", "u044b", "u0439">>],
            \* Fasol' belaya (otvarnaya)
            [name |->
                <<"u0424", "u0430", "u0441", "u043e", "u043b", "u044c",
                  " ", "u0431", "u0435", "u043b", "u0430", "u044f", " ",
                  "(", "u043e", "u0442", "u0432", "u0430", "u0440",
                  "u043d", "u0430", "u044f", ")">>],
            \* Krasnyy luk
            [name |->
                <<"u041a", "u0440", "u0430", "u0441", "u043d", "u044b",
                  "u0439", " ", "u043b", "u0443", "u043a">>],
            \* Pomidory cherri
            [name |->
                <<"u041f", "u043e", "u043c", "u0438", "u0434", "u043e",
                  "u0440", "u044b", " ", "u0447", "u0435", "u0440",
                  "u0440", "u0438">>],
            \* Petrushka
            [name |->
                <<"u041f", "u0435", "u0442", "u0440", "u0443", "u0448",
                  "u043a", "u0430">>],
            \* Olivkovoe maslo
            [name |->
                <<"u041e", "u043b", "u0438", "u0432", "u043a", "u043e",
                  "u0432", "u043e", "u0435", " ", "u043c", "u0430",
                  "u0441", "u043b", "u043e">>],
            \* Limonnyy sok
            [name |->
                <<"u041b", "u0438", "u043c", "u043e", "u043d", "u043d",
                  "u044b", "u0439", " ", "u0441", "u043e", "u043a">>] >>] >>

MOCK_SHOPS ==
    <<
      \* Pyatyorochka
      [id |-> "shop_001",
       name |->
          <<"u041f", "u044f", "u0442", "u0451", "u0440", "u043e", "u0447",
            "u043a", "u0430">>,
       chain |->
          <<"X", "5", " ", "R", "e", "t", "a", "i", "l", " ", "G", "r",
            "o", "u", "p">>,
       latitude |-> 5575580, longitude |-> 3761730,
       address |->
          <<"u041c", "u043e", "u0441", "u043a", "u0432", "u0430", ",", " ",
            "u041a", "u0440", "u0430", "u0441", "u043d", "u0430", "u044f",
            " ", "u043f", "u043b", "u043e", "u0449", "u0430", "u0434",
            "u044c", ",", " ", "1">>,
       rating |-> 47,
       working_hours |-> <<"0", "8", ":", "0", "0", "-", "2", "3", ":", "0", "0">>,
       has_delivery |-> TRUE],
      \* Magnit
      [id |-> "shop_002",
       name |->
          <<"u041c", "u0430", "u0433", "u043d", "u0438", "u0442">>,
       chain |->
          <<"u041c", "u0430", "u0433", "u043d", "u0438", "u0442">>,
       latitude |-> 5575000, longitude |-> 3762000,
       address |->
          <<"u041c", "u043e", "u0441", "u043a", "u0432", "u0430", ",", " ",
            "u0443", "u043b", ".", " ", "u0422", "u0432", "u0435", "u0440",
            "u0441", "u043a", "u0430", "u044f", ",", " ", "1", "5">>,
       rating |-> 45,
       working_hours |-> <<"0", "7", ":", "0", "0", "-", "2", "3", ":", "0", "0">>,
       has_delivery |-> TRUE],
      \* Diksi
      [id |-> "shop_003",
       name |->
          <<"u0414", "u0438", "u043a", "u0441", "u0438">>,
       chain |->
          <<"u0414", "u0438", "u043a", "u0441", "u0438">>,
       latitude |-> 5576000, longitude |-> 3761000,
       address |->
          <<"u041c", "u043e", "u0441", "u043a", "u0432", "u0430", ",", " ",
            "u041e", "u0445", "u043e", "u0442", "u043d", "u044b", "u0439",
            " ", "u0440", "u044f", "u0434", ",", " ", "2">>,
       rating |-> 43,
       working_hours |-> <<"0", "6", ":", "0", "0", "-", "2", "3", ":", "0", "0">>,
       has_delivery |-> FALSE],
      \* VkusVill
      [id |-> "shop_004",
       name |->
          <<"u0412", "u043a", "u0443", "u0441", "u0412", "u0438", "u043b",
            "u043b">>,
       chain |->
          <<"u0412", "u043a", "u0443", "u0441", "u0412", "u0438", "u043b",
            "u043b">>,
       latitude |-> 5575200, longitude |-> 3761500,
       address |->
          <<"u041c", "u043e", "u0441", "u043a", "u0432", "u0430", ",", " ",
            "u0443", "u043b", ".", " ", "u041d", "u0438", "u043a", "u043e",
            "u043b", "u044c", "u0441", "u043a", "u0430", "u044f", ",", " ",
            "1", "0">>,
       rating |-> 48,
       working_hours |-> <<"0", "8", ":", "0", "0", "-", "2", "2", ":", "0", "0">>,
       has_delivery |-> TRUE],
      \* Perekryostok
      [id |-> "shop_005",
       name |->
          <<"u041f", "u0435", "u0440", "u0435", "u043a", "u0440", "u0451",
            "u0441", "u0442", "u043e", "u043a">>,
       chain |->
          <<"X", "5", " ", "R", "e", "t", "a", "i", "l", " ", "G", "r",
            "o", "u", "p">>,
       latitude |-> 5575800, longitude |-> 3762200,
       address |->
          <<"u041c", "u043e", "u0441", "u043a", "u0432", "u0430", ",", " ",
            "u0443", "u043b", ".", " ", "u041f", "u0435", "u0442", "u0440",
            "u043e", "u0432", "u043a", "u0430", ",", " ", "5">>,
       rating |-> 46,
       working_hours |-> <<"0", "7", ":", "0", "0", "-", "2", "4", ":", "0", "0">>,
       has_delivery |-> TRUE] >>

\* The products every shop of MOCK_PRICES prices, in the order of its table.
SampleProductNames ==
    <<
      \* 1: Kurinoe file
      <<"u041a", "u0443", "u0440", "u0438", "u043d", "u043e", "u0435", " ",
        "u0444", "u0438", "u043b", "u0435">>,
      \* 2: Brokkoli
      <<"u0411", "u0440", "u043e", "u043a", "u043a", "u043e", "u043b",
        "u0438">>,
      \* 3: Grechnevaya krupa
      <<"u0413", "u0440", "u0435", "u0447", "u043d", "u0435", "u0432",
        "u0430", "u044f", " ", "u043a", "u0440", "u0443", "u043f", "u0430">>,
      \* 4: Olivkovoe maslo
      <<"u041e", "u043b", "u0438", "u0432", "u043a", "u043e", "u0432",
        "u043e", "u0435", " ", "u043c", "u0430", "u0441", "u043b", "u043e">>,
      \* 5: Tvorog 5%
      <<"u0422", "u0432", "u043e", "u0440", "u043e", "u0433", " ", "5", "%">>,
      \* 6: Yaytsa (10 sht)
      <<"u042f", "u0439", "u0446", "u0430", " ", "(", "1", "0", " ",
        "u0448", "u0442", ")">>,
      \* 7: Ovsyanye khlop'ya
      <<"u041e", "u0432", "u0441", "u044f", "u043d", "u044b", "u0435", " ",
        "u0445", "u043b", "u043e", "u043f", "u044c", "u044f">>,
      \* 8: Treska (file)
      <<"u0422", "u0440", "u0435", "u0441", "u043a", "u0430", " ", "(",
        "u0444", "u0438", "u043b", "u0435", ")">>,
      \* 9: Pomidory cherri
      <<"u041f", "u043e", "u043c", "u0438", "u0434", "u043e", "u0440",
        "u044b", " ", "u0447", "u0435", "u0440", "u0440", "u0438">>,
      \* 10: Kinoa
      <<"u041a", "u0438", "u043d", "u043e", "u0430">> >>

\* The prices of one shop, in roubles, as its table in insertion order.
PriceTable(prices) ==
    [i \in 1..Len(SampleProductNames) |-> <<SampleProductNames[i], prices[i]>>]

MOCK_PRICES ==
    [shop_id \in {"shop_001", "shop_002", "shop_003", "shop_004", "shop_005"} |->
        CASE shop_id = "shop_001" ->
                 PriceTable(<<289, 149, 89, 549, 89, 99, 79, 449, 199, 299>>)
          [] shop_id = "shop_002" ->
                 PriceTable(<<279, 159, 79, 529, 79, 89, 69, 429, 189, 319>>)
          [] shop_id = "shop_003" ->
                 PriceTable(<<299, 139, 85, 569, 85, 95, 75, 459, 179, 289>>)
          [] shop_id = "shop_004" ->
                 PriceTable(<<329, 169, 99, 599, 99, 129, 89, 499, 229, 349>>)
          [] shop_id = "shop_005" ->
                 PriceTable(<<309, 159, 95, 579, 95, 109, 85, 479, 209, 329>>)]

max_recipe_results == 10

SampleQueries ==
    {
      \* kuritsa
      <<"u043a", "u0443", "u0440", "u0438", "u0446", "u0430">>,
      \* KURITsA
      <<"u041a", "u0423", "u0420", "u0418", "u0426", "u0410">>,
      \*  Kuritsa 
      <<" ", "u041a", "u0443", "u0440", "u0438", "u0446", "u0430", " ">>,
      \* maslo
      <<"u043c", "u0430", "u0441", "u043b", "u043e">>,
      \* sup
      <<"u0441", "u0443", "u043f">>,
      \* (empty)
      <<>>,
      \*   
      <<" ", " ">>,
      \* Ogurets
      <<"u041e", "u0433", "u0443", "u0440", "u0435", "u0446">> }

SampleProducts ==
    {
      \* Grechnevaya krupa
      <<"u0413", "u0440", "u0435", "u0447", "u043d", "u0435", "u0432",
        "u0430", "u044f", " ", "u043a", "u0440", "u0443", "u043f", "u0430">>,
      \* grechnevaya krupa
      <<"u0433", "u0440", "u0435", "u0447", "u043d", "u0435", "u0432",
        "u0430", "u044f", " ", "u043a", "u0440", "u0443", "u043f", "u0430">>,
      \* Grechka
      <<"u0413", "u0440", "u0435", "u0447", "u043a", "u0430">>,
      \* Kinoa
      <<"u041a", "u0438", "u043d", "u043e", "u0430">>,
      \* yaytsa
      <<"u044f", "u0439", "u0446", "u0430">>,
      \* maslo
      <<"u043c", "u0430", "u0441", "u043b", "u043e">> }

InitSample ==
    /\ recipes_db = RECIPES_DATABASE
    /\ shops_db = MOCK_SHOPS
    /\ prices_db = MOCK_PRICES
    /\ op = "idle"
    /\ args = None
    /\ result = None
    /\ FrontendIdle

SearchSampleRecipes ==
    /\ op = "idle"
    /\ \E query \in SampleQueries, has_diabetes, has_gout, has_celiac \in BOOLEAN,
       limit \in Limits \cup {max_recipe_results} :
        /\ op' = "search_recipes"
        /\ args' = [query |-> query, has_diabetes |-> has_diabetes,
                    has_gout |-> has_gout, has_celiac |-> has_celiac,
                    limit |-> limit]
        /\ result' = IF limit_raises(limit)
                     THEN InvalidArgument
                     ELSE search_recipes(recipes_db, query, has_diabetes,
                                         has_gout, has_celiac, limit)
        /\ UNCHANGED Catalogs
    /\ UNCHANGED Frontend

\* The diagnosis filter on one recipe of the catalog.
FilterSampleRecipe ==
    /\ op = "idle"
    /\ \E i \in 1..Len(recipes_db),
          has_diabetes, has_gout, has_celiac \in BOOLEAN :
        /\ op' = "_filter_by_diagnosis"
        /\ args' = [recipes |-> <<recipes_db[i]>>, has_diabetes |-> has_diabetes,
                    has_gout |-> has_gout, has_celiac |-> has_celiac]
        /\ result' = filter_by_diagnosis(<<recipes_db[i]>>, has_diabetes,
                                         has_gout, has_celiac)
        /\ UNCHANGED Catalogs
    /\ UNCHANGED Frontend

CompareSamplePrices ==
    /\ op = "idle"
    /\ \E product_name \in SampleProducts :
        /\ op' = "compare_prices"
        /\ args' = [product_name |-> product_name]
        /\ result' = compare_prices(shops_db, prices_db, product_name)
        /\ UNCHANGED Catalogs
    /\ UNCHANGED Frontend

NextSample ==
    \/ SearchSampleRecipes
    \/ FilterSampleRecipe
    \/ CompareSamplePrices
    \/ Return

SpecSample == InitSample /\ [][NextSample]_vars

(***************************************************************************)
(* handlers.py: user_states and the handlers of incoming updates           *)
(*                                                                         *)
(* A worker runs the handler of one update from statement to statement. A  *)
(* statement is an access to user_states (`in`, a read, `del`, a store:    *)
(* each atomic in the interpreter) or a run of calls to the outside (the   *)
(* Telegram API, the database, the services), which touches no state of    *)
(* the handlers and either returns or raises. pc names the statement a     *)
(* worker is at, as "function:statement".                                  *)
(***************************************************************************)
\* The actions stored by the callbacks that start a dialogue.
StateActions == {"search_recipes", "find_shops", "compare_prices", "ask_dietician"}

\* The callbacks: those that start a dialogue, main_menu, and "help" for
\* the ones that do not touch user_states.
CallbackData == StateActions \cup {"main_menu", "help"}

Update(kind, user, data) == [kind |-> kind, user |-> user, data |-> data]

Updates ==
    {Update(kind, user, "") : kind \in {"text", "location"}, user \in Users}
        \cup {Update("callback", user, data) : user \in Users, data \in CallbackData}

\* The first statement of the handler of an update.
EntryPc(update) ==
    CASE update.kind = "text" -> "handle_text:in"
      [] update.kind = "location" -> "handle_location:find"
      [] update.kind = "callback" -> "handle_callback:answer"

\* The except clause of the handler of an update.
ExceptPc(update) ==
    CASE update.kind = "text" -> "handle_text:except"
      [] update.kind = "location" -> "handle_location:except"
      [] update.kind = "callback" -> "handle_callback:except"

\* Where an exception raised at pc is caught: in the try of
\* process_dietician_question by its own except clause, in an except clause
\* of a handler by nobody (it leaves the handler), elsewhere by the except
\* clause of the handler.
RaisedTo(pc, update) ==
    IF pc \in {"process_dietician_question:ask", "process_dietician_question:del",
               "process_dietician_question:send"}
    THEN "process_dietician_question:except"
    ELSE IF pc \in {"handle_text:except", "handle_location:except",
                    "handle_callback:except"}
    THEN "done"
    ELSE ExceptPc(update)

\* The statements that call the outside.
CallPcs ==
    {"handle_text:menu", "handle_text:except",
     "handle_location:find", "handle_location:except",
     "handle_callback:answer", "handle_callback:other", "handle_callback:except",
     "show_main_menu:send", "start:send",
     "process_recipe_search:search", "process_recipe_search:send",
     "process_dietician_question:loading", "process_dietician_question:ask",
     "process_dietician_question:send", "process_dietician_question:except",
     "process_price_comparison:send", "process_add:send"}

\* The statement after a call that returned.
AfterCall(pc, update) ==
    CASE pc = "handle_location:find" -> "handle_location:in"
      [] pc = "handle_callback:answer" ->
             IF update.data = "main_menu" THEN "show_main_menu:in"
             ELSE IF update.data \in StateActions THEN "start:store"
             ELSE "handle_callback:other"
      [] pc = "process_recipe_search:search" -> "process_recipe_search:del"
      [] pc = "process_dietician_question:loading" -> "process_dietician_question:ask"
      [] pc = "process_dietician_question:ask" -> "process_dietician_question:del"
      [] pc = "process_add:send" -> "process_add:in"
      [] OTHER -> "done"

\* `if user_id in user_states:` and the statements of its two branches.
InPcs == {"handle_text:in", "handle_location:in", "show_main_menu:in", "process_add:in"}

AfterIn(pc, present) ==
    CASE pc = "handle_text:in" ->
             IF present THEN "handle_text:get" ELSE "handle_text:menu"
      [] pc = "handle_location:in" ->
             IF present THEN "handle_location:del" ELSE "done"
      [] pc = "show_main_menu:in" ->
             IF present THEN "show_main_menu:del" ELSE "show_main_menu:send"
      [] pc = "process_add:in" ->
             IF present THEN "process_add:del" ELSE "done"

\* A bug the one-shot claim must detect: a text in a state without a
\* dialogue answered like a text without a state, the entry left in place.
Dispatch_unknown_keeps_state(state) ==
    CASE state = "search_recipes" -> "process_recipe_search:search"
      [] state = "ask_dietician" -> "process_dietician_question:loading"
      [] state = "compare_prices" -> "process_price_comparison:del"
      [] state \in {"add_to_diary", "add_to_shopping"} -> "process_add:send"
      [] OTHER -> "handle_text:menu"

\* The if/elif chain of handle_text over the state it has read.
Dispatch(state) ==
    CASE state = "search_recipes" -> "process_recipe_search:search"
      [] state = "ask_dietician" -> "process_dietician_question:loading"
      [] state = "compare_prices" -> "process_price_comparison:del"
      [] state \in {"add_to_diary", "add_to_shopping"} -> "process_add:send"
      [] OTHER -> "handle_text:del"

\* `del user_states[user_id]` and the statement after it.
DelPcs ==
    {"handle_text:del", "handle_location:del", "show_main_menu:del",
     "process_recipe_search:del", "process_dietician_question:del",
     "process_price_comparison:del", "process_add:del"}

AfterDel(pc) ==
    CASE pc = "handle_text:del" -> "show_main_menu:in"
      [] pc = "show_main_menu:del" -> "show_main_menu:send"
      [] pc = "process_recipe_search:del" -> "process_recipe_search:send"
      [] pc = "process_dietician_question:del" -> "process_dietician_question:send"
      [] pc = "process_price_comparison:del" -> "process_price_comparison:send"
      [] OTHER -> "done"

\* dict without a key
Without(d, key) == [k \in DOMAIN d \ {key} |-> d[k]]

\* dict with d[key] = value
Stored(d, key, value) ==
    [k \in DOMAIN d \cup {key} |-> IF k = key THEN value ELSE d[k]]

At(w, pc) == [workers EXCEPT ![w].pc = pc]

Raised(w) ==
    [workers EXCEPT ![w].pc = RaisedTo(workers[w].pc, workers[w].update),
                    ![w].error = TRUE]

Service == <<recipes_db, shops_db, prices_db, op, args, result>>

Limiter == <<rate_limit, call_history, callers, clock, executed>>

InitHandlers ==
    /\ recipes_db = RECIPES_DATABASE
    /\ shops_db = MOCK_SHOPS
    /\ prices_db = MOCK_PRICES
    /\ op = "idle"
    /\ args = None
    /\ result = None
    /\ FrontendIdle

\* An update of one of the users reaches a free worker.
Receive(w, users) ==
    /\ workers[w].pc = "idle"
    /\ \E update \in {u \in Updates : u.user \in users} :
           workers' = [workers EXCEPT ![w] =
                          [update |-> update, pc |-> EntryPc(update),
                           error |-> FALSE, key_error |-> "",
                           entry |-> Get(user_states, update.user, None)]]
    /\ UNCHANGED <<user_states, Service, Limiter>>

\* An update arrives while no other is being handled.
ReceiveAlone(w) ==
    /\ \A v \in Workers : workers[v].pc = "idle"
    /\ Receive(w, Users)

\* The handlers read and write user_states at the key of their update's
\* user alone, so the handlers of one user's updates are the ones that
\* meet: the pool is given the updates of one user.
OneUser == {CHOOSE u \in Users : \A v \in Users : u <= v}

\* An update of the user arrives, whatever the other workers are at.
ReceiveAny(w) == Receive(w, OneUser)

\* The calls to the outside return.
Call(w) ==
    /\ workers[w].pc \in CallPcs
    /\ workers' = At(w, AfterCall(workers[w].pc, workers[w].update))
    /\ UNCHANGED <<user_states, Service, Limiter>>

\* One of the calls to the outside raises.
CallRaises(w) ==
    /\ workers[w].pc \in CallPcs
    /\ workers' = Raised(w)
    /\ UNCHANGED <<user_states, Service, Limiter>>

\* if user_id in user_states:
In(w) ==
    /\ workers[w].pc \in InPcs
    /\ workers' = At(w, AfterIn(workers[w].pc,
                                workers[w].update.user \in DOMAIN user_states))
    /\ UNCHANGED <<user_states, Service, Limiter>>

\* state = user_states[user_id].get("action"), and the if/elif chain
GetState(w) ==
    /\ workers[w].pc = "handle_text:get"
    /\ workers' =
           IF workers[w].update.user \in DOMAIN user_states
           THEN At(w, Dispatch(user_states[workers[w].update.user].action))
           ELSE [Raised(w) EXCEPT ![w].key_error = "handle_text:get"]
    /\ UNCHANGED <<user_states, Service, Limiter>>

\* del user_states[user_id]
Del(w) ==
    /\ workers[w].pc \in DelPcs
    /\ IF workers[w].update.user \in DOMAIN user_states
       THEN /\ user_states' = Without(user_states, workers[w].update.user)
            /\ workers' = At(w, AfterDel(workers[w].pc))
       ELSE /\ workers' = [Raised(w) EXCEPT ![w].key_error = workers[w].pc]
            /\ UNCHANGED user_states
    /\ UNCHANGED <<Service, Limiter>>

\* user_states[user_id] = {"action": ...}
Store(w) ==
    /\ workers[w].pc = "start:store"
    /\ user_states' = Stored(user_states, workers[w].update.user,
                             [action |-> workers[w].update.data])
    /\ workers' = At(w, "start:send")
    /\ UNCHANGED <<Service, Limiter>>

\* The handler has returned and the worker is free again.
Finish(w) ==
    /\ workers[w].pc = "done"
    /\ workers' = [workers EXCEPT ![w] = IdleWorker]
    /\ UNCHANGED <<user_states, Service, Limiter>>

\* The updates handled one after the other.
NextHandlers ==
    \/ \E w \in Workers : ReceiveAlone(w)
    \/ \E w \in Workers : Call(w)
    \/ \E w \in Workers : CallRaises(w)
    \/ \E w \in Workers : In(w)
    \/ \E w \in Workers : GetState(w)
    \/ \E w \in Workers : Del(w)
    \/ \E w \in Workers : Store(w)
    \/ \E w \in Workers : Finish(w)

SpecHandlers == InitHandlers /\ [][NextHandlers]_vars

\* The updates handled by the pool: an update is taken as soon as a worker
\* is free, and the workers' statements interleave.
NextPool ==
    \/ \E w \in Workers : ReceiveAny(w)
    \/ \E w \in Workers : Call(w)
    \/ \E w \in Workers : CallRaises(w)
    \/ \E w \in Workers : In(w)
    \/ \E w \in Workers : GetState(w)
    \/ \E w \in Workers : Del(w)
    \/ \E w \in Workers : Store(w)
    \/ \E w \in Workers : Finish(w)

SpecPool == InitHandlers /\ [][NextPool]_vars

(***************************************************************************)
(* middleware.py: rate_limit                                               *)
(*                                                                         *)
(* A function decorated with rate_limit(calls, period) is called by the    *)
(* threads that run the handlers. A caller goes through the wrapper from   *)
(* statement to statement; the statements that read or write call_history  *)
(* are atomic, and between any two of them another caller may run.         *)
(* Times are whole seconds. The calls carry a user id (a message whose     *)
(* sender has an id other than 0); a call without one runs the function    *)
(* unchecked and is left out.                                              *)
(***************************************************************************)
MaxCalls == 1
MaxPeriod == 2
MaxTime == 2

\* The runs recorded per user: a call is not started for a user who has
\* this many.
MaxRuns == 2

\* [t for t in call_history[user_id] if current_time - t < period]
RECURSIVE recent(_, _, _)
recent(history, current_time, period) ==
    IF history = <<>>
    THEN <<>>
    ELSE IF current_time - Head(history) < period
         THEN <<Head(history)>> \o recent(Tail(history), current_time, period)
         ELSE recent(Tail(history), current_time, period)

Goes(w, pc) == [callers EXCEPT ![w].pc = pc]

Handlers == <<user_states, workers>>

InitLimiter ==
    /\ recipes_db = <<>>
    /\ shops_db = <<>>
    /\ prices_db = <<>>
    /\ op = "idle"
    /\ args = None
    /\ result = None
    /\ user_states = <<>>
    /\ workers = [w \in Workers |-> IdleWorker]
    /\ rate_limit \in [calls : 1..MaxCalls, period : 1..MaxPeriod]
    /\ call_history = <<>>
    /\ callers = [w \in Workers |-> IdleCaller]
    /\ clock = 0
    /\ executed = [u \in Users |-> <<>>]

\* wrapper(message): user_id = message.from_user.id
Enter(w) ==
    /\ callers[w].pc = "idle"
    /\ \E user_id \in Users :
           /\ Len(executed[user_id]) < MaxRuns
           /\ callers' = [callers EXCEPT ![w] =
                             [pc |-> "time", user_id |-> user_id,
                              current_time |-> 0, kept |-> <<>>]]
    /\ UNCHANGED <<Service, Handlers, rate_limit, call_history, clock, executed>>

\* A call is made while no other is inside the wrapper.
EnterAlone(w) ==
    /\ \A v \in Workers : callers[v].pc = "idle"
    /\ Enter(w)

\* current_time = time.time()
Time(w) ==
    /\ callers[w].pc = "time"
    /\ callers' = [callers EXCEPT ![w].pc = "in", ![w].current_time = clock]
    /\ UNCHANGED <<Service, Handlers, rate_limit, call_history, clock, executed>>

\* if user_id not in call_history:
NotIn(w) ==
    /\ callers[w].pc = "in"
    /\ callers' = Goes(w, IF callers[w].user_id \in DOMAIN call_history
                          THEN "filter" ELSE "new")
    /\ UNCHANGED <<Service, Handlers, rate_limit, call_history, clock, executed>>

\* call_history[user_id] = []
New(w) ==
    /\ callers[w].pc = "new"
    /\ call_history' = Stored(call_history, callers[w].user_id, <<>>)
    /\ callers' = Goes(w, "filter")
    /\ UNCHANGED <<Service, Handlers, rate_limit, clock, executed>>

\* The list comprehension over call_history[user_id] ...
Filter(w) ==
    /\ callers[w].pc = "filter"
    /\ callers' = [callers EXCEPT
                      ![w].pc = "store",
                      ![w].kept = recent(call_history[callers[w].user_id],
                                         callers[w].current_time, rate_limit.period)]
    /\ UNCHANGED <<Service, Handlers, rate_limit, call_history, clock, executed>>

\* ... and the assignment of its result to call_history[user_id]
StoreKept(w) ==
    /\ callers[w].pc = "store"
    /\ call_history' = Stored(call_history, callers[w].user_id, callers[w].kept)
    /\ callers' = Goes(w, "len")
    /\ UNCHANGED <<Service, Handlers, rate_limit, clock, executed>>

\* if len(call_history[user_id]) >= calls: return None
Full(w) ==
    /\ callers[w].pc = "len"
    /\ callers' = Goes(w, IF Len(call_history[callers[w].user_id]) >= rate_limit.calls
                          THEN "return None" ELSE "append")
    /\ UNCHANGED <<Service, Handlers, rate_limit, call_history, clock, executed>>

\* call_history[user_id].append(current_time)
AppendTime(w) ==
    /\ callers[w].pc = "append"
    /\ call_history' =
           Stored(call_history, callers[w].user_id,
                  Append(call_history[callers[w].user_id], callers[w].current_time))
    /\ callers' = Goes(w, "func")
    /\ UNCHANGED <<Service, Handlers, rate_limit, clock, executed>>

\* return func(*args, **kwargs)
Func(w) ==
    /\ callers[w].pc = "func"
    /\ executed' = [executed EXCEPT ![callers[w].user_id] =
                       Append(@, callers[w].current_time)]
    /\ callers' = Goes(w, "return")
    /\ UNCHANGED <<Service, Handlers, rate_limit, call_history, clock>>

\* The wrapper has returned.
Leave(w) ==
    /\ callers[w].pc \in {"return", "return None"}
    /\ callers' = [callers EXCEPT ![w] = IdleCaller]
    /\ UNCHANGED <<Service, Handlers, rate_limit, call_history, clock, executed>>

\* A second passes.
Tick ==
    /\ clock < MaxTime
    /\ clock' = clock + 1
    /\ UNCHANGED <<Service, Handlers, rate_limit, call_history, callers, executed>>

\* The decorated function called from the handlers' threads.
NextLimiter ==
    \/ \E w \in Workers : Enter(w)
    \/ \E w \in Workers : Time(w)
    \/ \E w \in Workers : NotIn(w)
    \/ \E w \in Workers : New(w)
    \/ \E w \in Workers : Filter(w)
    \/ \E w \in Workers : StoreKept(w)
    \/ \E w \in Workers : Full(w)
    \/ \E w \in Workers : AppendTime(w)
    \/ \E w \in Workers : Func(w)
    \/ \E w \in Workers : Leave(w)
    \/ Tick

SpecLimiter == InitLimiter /\ [][NextLimiter]_vars

\* The decorated function called by one caller at a time.
NextLimiterAlone ==
    \/ \E w \in Workers : EnterAlone(w)
    \/ \E w \in Workers : Time(w)
    \/ \E w \in Workers : NotIn(w)
    \/ \E w \in Workers : New(w)
    \/ \E w \in Workers : Filter(w)
    \/ \E w \in Workers : StoreKept(w)
    \/ \E w \in Workers : Full(w)
    \/ \E w \in Workers : AppendTime(w)
    \/ \E w \in Workers : Func(w)
    \/ \E w \in Workers : Leave(w)
    \/ Tick

SpecLimiterAlone == InitLimiter /\ [][NextLimiterAlone]_vars

(***************************************************************************)
(* Properties of the recipe service.                                       *)
(***************************************************************************)
\* The operations whose result went through the diagnosis filter.
FilteredOps ==
    {"_filter_by_diagnosis", "search_recipes", "get_all_recipes",
     "get_recipes_by_category", "get_random_recipe"}

\* The recipes the last call returned.
ReturnedRecipes ==
    IF op = "get_random_recipe"
    THEN IF result = None THEN {} ELSE {result}
    ELSE IF op \in FilteredOps THEN Range(result) ELSE {}

HasField(r, key) == key \in DOMAIN r

\* C1: with has_diabetes set, every recipe returned by the diagnosis filter,
\* search_recipes, get_all_recipes, get_recipes_by_category or
\* get_random_recipe has a glycemic index of at most max_glycemic_index (a
\* record that carries no glycemic index is outside the statement).
C1_DiabetesResultsWithinIndex ==
    (op \in FilteredOps /\ args.has_diabetes) =>
        \A r \in ReturnedRecipes :
            HasField(r, "glycemic_index") =>
                r.glycemic_index <= max_glycemic_index

\* C1 witness: a diabetes search that returned a recipe at the threshold
\* from a catalog that also holds a recipe above it.
C1_Witness ==
    /\ op = "search_recipes"
    /\ args.has_diabetes
    /\ args.query = <<>>
    /\ \E r \in Range(result) :
           HasField(r, "glycemic_index") /\ r.glycemic_index = max_glycemic_index
    /\ \E r \in Range(recipes_db) :
           HasField(r, "glycemic_index") /\ r.glycemic_index > max_glycemic_index

\* C2: with has_gout set, every returned recipe has purines of at most 100.
C2_GoutResultsWithinPurines ==
    (op \in FilteredOps /\ args.has_gout) =>
        \A r \in ReturnedRecipes : HasField(r, "purines") => r.purines <= 100

\* C2 witness: the filter called with has_gout kept a recipe with purines
\* 100 and dropped one with more.
C2_Witness ==
    /\ op = "_filter_by_diagnosis"
    /\ args.has_gout
    /\ \E r \in Range(result) : HasField(r, "purines") /\ r.purines = 100
    /\ \E r \in Range(args.recipes) : HasField(r, "purines") /\ r.purines > 100

\* C3: with has_celiac set, every returned recipe carries
\* suitable_for_celiac = TRUE; a recipe with the flag FALSE or without the
\* flag is never returned.
C3_CeliacResultsSuitable ==
    (op \in FilteredOps /\ args.has_celiac) =>
        \A r \in ReturnedRecipes :
            HasField(r, "suitable_for_celiac") /\ r.suitable_for_celiac = TRUE

\* C3 witness: a celiac category listing that returned a recipe while the
\* catalog holds a recipe without the flag and one with the flag FALSE.
C3_Witness ==
    /\ op = "get_recipes_by_category"
    /\ args.has_celiac
    /\ result # <<>>
    /\ \E r \in Range(recipes_db) : ~HasField(r, "suitable_for_celiac")
    /\ \E r \in Range(recipes_db) :
           HasField(r, "suitable_for_celiac") /\ ~r.suitable_for_celiac

\* What the specification asks of one recipe under the active flags: each
\* active flag's constraint, an inactive flag asking nothing.  A numeric
\* field the record does not carry counts as 0, a missing celiac flag as
\* unsuitable.
Conforms(r, has_diabetes, has_gout, has_celiac) ==
    /\ has_diabetes =>
           (HasField(r, "glycemic_index") => r.glycemic_index <= max_glycemic_index)
    /\ has_gout => (HasField(r, "purines") => r.purines <= 100)
    /\ has_celiac =>
           (HasField(r, "suitable_for_celiac") /\ r.suitable_for_celiac)

\* out is inp restricted to the positions in idx, in the order of inp.
IsSelection(out, inp, idx) ==
    /\ Len(out) = Cardinality(idx)
    /\ \A i \in idx : out[Cardinality({j \in idx : j <= i})] = inp[i]

ConformingPositions(recipes, has_diabetes, has_gout, has_celiac) ==
    {i \in 1..Len(recipes) :
        Conforms(recipes[i], has_diabetes, has_gout, has_celiac)}

\* C4: the diagnosis filter returns exactly the input recipes that satisfy
\* all active constraints, each once and in input order; with no flag set
\* the output is the input.
C4_FilterIsExactSelection ==
    op = "_filter_by_diagnosis" =>
        /\ IsSelection(result, args.recipes,
                       ConformingPositions(args.recipes, args.has_diabetes,
                                           args.has_gout, args.has_celiac))
        /\ (~args.has_diabetes /\ ~args.has_gout /\ ~args.has_celiac)
               => result = args.recipes

\* C4 witness: two flags active, a list of two different recipes that both
\* pass, returned in input order.
C4_Witness ==
    /\ op = "_filter_by_diagnosis"
    /\ args.has_diabetes /\ args.has_celiac /\ ~args.has_gout
    /\ Len(args.recipes) = 2
    /\ args.recipes[1] # args.recipes[2]
    /\ result = args.recipes

\* The flag triples that keep every flag of <<d, g, c>> and set one more.
OneMoreFlag(d, g, c) ==
    {f \in BOOLEAN \X BOOLEAN \X BOOLEAN :
        /\ d => f[1]
        /\ g => f[2]
        /\ c => f[3]
        /\ Cardinality({k \in 1..3 : f[k]})
               = Cardinality({k \in 1..3 : <<d, g, c>>[k]}) + 1}

\* C5: switching one more flag on never adds a recipe to the result of the
\* diagnosis filter, of get_recipes_by_category, or of search_recipes with a
\* limit that truncates nothing.
C5_FilterMonotonic ==
    /\ op = "_filter_by_diagnosis" =>
           \A f \in OneMoreFlag(args.has_diabetes, args.has_gout, args.has_celiac) :
               Range(filter_by_diagnosis(args.recipes, f[1], f[2], f[3]))
                   \subseteq Range(result)
    /\ op = "get_recipes_by_category" =>
           \A f \in OneMoreFlag(args.has_diabetes, args.has_gout, args.has_celiac) :
               Range(get_recipes_by_category(recipes_db, args.category,
                                             f[1], f[2], f[3]))
                   \subseteq Range(result)
    /\ (op = "search_recipes" /\ args.limit >= Len(recipes_db)) =>
           \A f \in OneMoreFlag(args.has_diabetes, args.has_gout, args.has_celiac) :
               Range(search_recipes(recipes_db, args.query, f[1], f[2], f[3],
                                    args.limit))
                   \subseteq Range(result)

\* C5 witness: a gout-only filter call whose result shrinks, but is not
\* emptied, when has_diabetes is switched on as well.
C5_Witness ==
    /\ op = "_filter_by_diagnosis"
    /\ args.has_gout /\ ~args.has_diabetes /\ ~args.has_celiac
    /\ LET more == filter_by_diagnosis(args.recipes, TRUE, TRUE, FALSE)
       IN  more # <<>> /\ Len(more) < Len(result)

\* The query as the specification normalizes it: lowercased, without the
\* whitespace before its first and after its last other character.
Normalized(query) ==
    LET low == [i \in 1..Len(query) |-> LowerChar(query[i])]
        solid == {i \in 1..Len(low) : low[i] \notin Whitespace}
    IN  IF solid = {}
        THEN <<>>
        ELSE LET first == CHOOSE i \in solid : \A j \in solid : i <= j
                 last == CHOOSE i \in solid : \A j \in solid : j <= i
             IN  [k \in 1..(last - first + 1) |-> low[first + k - 1]]

\* text, lowercased, has part as a contiguous piece
ContainsLowered(text, part) ==
    \E start \in 1..(Len(text) + 1) :
        \A k \in 1..Len(part) :
            /\ start + k - 1 <= Len(text)
            /\ LowerChar(text[start + k - 1]) = part[k]

Matches(r, query) ==
    \/ ContainsLowered(r.name, Normalized(query))
    \/ /\ HasField(r, "ingredients")
       /\ \E k \in 1..Len(r.ingredients) :
              ContainsLowered(r.ingredients[k].name, Normalized(query))

\* C6: for limit >= 0, search_recipes returns the first `limit` of the
\* catalog recipes, in catalog order, whose name or some ingredient name
\* contains the normalized query and which conform to the active flags; a
\* query differing only in letter case and outer whitespace gives the same
\* result.
C6_SearchIsFirstMatches ==
    (op = "search_recipes" /\ args.limit >= 0) =>
        /\ \E hits \in SUBSET (1..Len(recipes_db)) :
               /\ \A i \in 1..Len(recipes_db) :
                      i \in hits <=>
                          /\ Matches(recipes_db[i], args.query)
                          /\ Conforms(recipes_db[i], args.has_diabetes,
                                      args.has_gout, args.has_celiac)
               /\ LET first == {i \in hits :
                                   Cardinality({j \in hits : j <= i}) <= args.limit}
                  IN  IsSelection(result, recipes_db, first)
        /\ \A other \in Queries :
               Normalized(other) = Normalized(args.query) =>
                   search_recipes(recipes_db, other, args.has_diabetes,
                                  args.has_gout, args.has_celiac, args.limit)
                       = result

\* C6 witness: a query in upper case with outer whitespace, a limit that
\* cuts the hits, and a hit found through an ingredient alone.
C6_Witness ==
    /\ op = "search_recipes"
    /\ args.query = <<" ", "A", " ">>
    /\ args.limit = 1
    /\ Len(result) = 1
    /\ ~ContainsLowered(result[1].name, <<"a">>)
    /\ Cardinality({i \in 1..Len(recipes_db) :
                       Matches(recipes_db[i], args.query)}) > 1


(***************************************************************************)
(* Properties of find_nearby_shops.                                        *)
(***************************************************************************)
\* The distance from the query point of the last call to a shop record.
DistanceTo(shop) ==
    calculate_haversine_distance(args.latitude, args.longitude,
                                 shop.latitude, shop.longitude)

\* The place of a returned entry's shop in the catalog.
CatalogPlace(entry) == CHOOSE i \in 1..Len(shops_db) : shops_db[i].id = entry.id

\* C7, as claimed: no returned shop is farther from the query point than
\* radius_km, and no returned entry reports a distance_km above radius_km.
C7_ReportedWithinRadius ==
    op = "find_nearby_shops" =>
        \A k \in 1..Len(result) :
            /\ DistanceTo(result[k]) <= args.radius_km
            /\ result[k].distance_km <= args.radius_km

\* C7, amended: no returned shop is farther from the query point than
\* radius_km; the distance_km reported is that distance rounded to 0.01 km,
\* which exceeds radius_km by at most 0.005 km (50 units of 10^-4 km).
C7_DistanceWithinRadius ==
    op = "find_nearby_shops" =>
        \A k \in 1..Len(result) :
            /\ DistanceTo(result[k]) <= args.radius_km
            /\ result[k].distance_km = Round2(DistanceTo(result[k]))
            /\ result[k].distance_km - args.radius_km <= 50

\* C7 witness: a call that returned a shop reported above the radius and
\* left out a catalog shop beyond the radius.
C7_Witness ==
    /\ op = "find_nearby_shops"
    /\ \E k \in 1..Len(result) : result[k].distance_km > args.radius_km
    /\ \E i \in 1..Len(shops_db) : DistanceTo(shops_db[i]) > args.radius_km

\* C8, as claimed: the result is ordered by non-decreasing distance to the
\* query point, shops at equal distance stand in catalog order, and for
\* limit >= 0 the result is the first `limit` entries of that order: never
\* more than `limit`, and no catalog shop within the radius that was left
\* out is nearer than a returned one.
C8_SortedByDistance ==
    (op = "find_nearby_shops" /\ args.limit >= 0) =>
        /\ \A i, j \in 1..Len(result) :
               i < j =>
                   /\ DistanceTo(result[i]) <= DistanceTo(result[j])
                   /\ DistanceTo(result[i]) = DistanceTo(result[j])
                          => CatalogPlace(result[i]) < CatalogPlace(result[j])
        /\ Len(result) <= args.limit
        /\ \A i \in 1..Len(shops_db) :
               (/\ DistanceTo(shops_db[i]) <= args.radius_km
                /\ \A k \in 1..Len(result) : result[k].id # shops_db[i].id)
                   => /\ Len(result) = args.limit
                      /\ \A k \in 1..Len(result) :
                             DistanceTo(result[k]) <= DistanceTo(shops_db[i])


(***************************************************************************)
(* Properties of the price comparison.                                     *)
(***************************************************************************)
\* What the price-match policy finds for the shop at catalog position i.
MatchedPrice(i, product_name) ==
    find_product_price(Get(prices_db, shops_db[i].id, <<>>), product_name)

\* The catalog position of the shop an entry names.
EntryPlace(entry) ==
    CHOOSE i \in 1..Len(shops_db) : shops_db[i].id = entry.shop_id

\* C9: compare_prices returns one entry for exactly the shops for which the
\* price-match policy finds a price for the product, each entry carrying
\* that shop's matched price (never a missing or zero one), in order of
\* non-decreasing price, shops with the same price in catalog order.
C9_ComparePricesSortedMatches ==
    op = "compare_prices" =>
        /\ \A i \in 1..Len(shops_db) :
               Cardinality({k \in 1..Len(result) :
                                result[k].shop_id = shops_db[i].id})
                   = IF MatchedPrice(i, args.product_name) # None THEN 1 ELSE 0
        /\ \A k \in 1..Len(result) :
               /\ \E i \in 1..Len(shops_db) : shops_db[i].id = result[k].shop_id
               /\ Some(result[k].price)
                      = MatchedPrice(EntryPlace(result[k]), args.product_name)
               /\ result[k].price > 0
               /\ result[k].shop_name = shops_db[EntryPlace(result[k])].name
        /\ \A k \in 1..(Len(result) - 1) :
               \/ result[k].price < result[k + 1].price
               \/ /\ result[k].price = result[k + 1].price
                  /\ EntryPlace(result[k]) < EntryPlace(result[k + 1])

\* A comparison over three shops: one without a match, and two with matches
\* that the sort has put in the opposite of catalog order.
C9_Witness ==
    /\ op = "compare_prices"
    /\ Len(shops_db) = 3
    /\ Len(result) = 2
    /\ EntryPlace(result[1]) > EntryPlace(result[2])
    /\ result[1].price < result[2].price

\* C10: find_cheapest_shop_for_product returns None exactly when
\* compare_prices is empty for the product, and otherwise the shop and price
\* of the first element of compare_prices, also when several shops offer
\* the lowest price.
C10_CheapestIsFirstCompared ==
    op = "find_cheapest_shop_for_product" =>
        LET compared == compare_prices(shops_db, prices_db, args.product_name)
        IN  /\ (result = None) <=> (compared = <<>>)
            /\ result # None =>
                   /\ result.shop_id = compared[1].shop_id
                   /\ result.shop_name = compared[1].shop_name
                   /\ result.price = compared[1].price

\* Two shops offer the lowest price, after a dearer shop earlier in the
\* catalog, and the first of the two is returned.
C10_Witness ==
    /\ op = "find_cheapest_shop_for_product"
    /\ result # None
    /\ \E i, j, k \in 1..Len(shops_db) :
           /\ i < j /\ j < k
           /\ MatchedPrice(i, args.product_name) # None
           /\ MatchedPrice(i, args.product_name).value > result.price
           /\ MatchedPrice(j, args.product_name) = Some(result.price)
           /\ MatchedPrice(k, args.product_name) = Some(result.price)
           /\ result.shop_id = shops_db[j].id


(***************************************************************************)
(* Properties of the recipe prices.                                        *)
(***************************************************************************)
\* The name an ingredient is priced by.
NameOf(ingredient) == Get(ingredient, "name", <<>>)

\* The positions of the requested ingredients for which the price-match
\* policy finds a price in the shop at catalog position i.
PricedPositions(i, ingredients) ==
    {k \in 1..Len(ingredients) :
         MatchedPrice(i, NameOf(ingredients[k])) # None}

\* The sum of the matched prices at the positions `positions`.
RECURSIVE SumOfMatched(_, _, _)
SumOfMatched(i, ingredients, positions) ==
    IF positions = {}
    THEN 0
    ELSE LET k == CHOOSE k \in positions : TRUE
         IN  MatchedPrice(i, NameOf(ingredients[k])).value
                 + SumOfMatched(i, ingredients, positions \ {k})

\* C11: get_prices_for_recipe returns an entry for every shop of the
\* catalog; its total_price is the sum of the prices of exactly the
\* requested ingredients the price-match policy finds in that shop,
\* found_items is their number and the length of the per-item list,
\* total_items is the number of requested ingredients, and
\* found_items <= total_items; an unmatched ingredient adds nothing.
C11_RecipePricesPerShop ==
    op = "get_prices_for_recipe" =>
        /\ Len(result) = Len(shops_db)
        /\ \A i \in 1..Len(shops_db) :
               LET entry == result[i][2]
                   priced == PricedPositions(i, args.recipe_ingredients)
               IN  /\ result[i][1] = shops_db[i].id
                   /\ entry.shop_name = shops_db[i].name
                   /\ entry.total_price
                          = SumOfMatched(i, args.recipe_ingredients, priced)
                   /\ entry.found_items = Cardinality(priced)
                   /\ entry.found_items = Len(entry.items)
                   /\ entry.total_items = Len(args.recipe_ingredients)
                   /\ entry.found_items <= entry.total_items

\* Three ingredients are requested; one shop prices the two that follow an
\* ingredient it does not have, and another shop prices none.
C11_Witness ==
    /\ op = "get_prices_for_recipe"
    /\ Len(args.recipe_ingredients) = 3
    /\ NameOf(args.recipe_ingredients[1]) = <<"x">>
    /\ \E i, j \in 1..Len(result) :
           /\ result[i][2].found_items = 2
           /\ result[i][2].total_items = 3
           /\ result[i][2].total_price > 0
           /\ result[j][2].found_items = 0
           /\ result[j][2].total_price = 0


\* The total of the shop at catalog position i for the requested
\* ingredients.
TotalAt(i, ingredients) ==
    SumOfMatched(i, ingredients, PricedPositions(i, ingredients))

\* C12: whenever some shop has total_price > 0 for the ingredient list,
\* find_cheapest_shop_for_recipe returns a shop whose total_price is the
\* minimum over the shops with total_price > 0; a shop with total_price 0
\* is never returned in preference to a shop with a positive total.
C12_CheapestRecipeShopIsPositiveMinimum ==
    (/\ op = "find_cheapest_shop_for_recipe"
     /\ \E i \in 1..Len(shops_db) : TotalAt(i, args.recipe_ingredients) > 0)
    => /\ result # None
       /\ result.total_price > 0
       /\ \E i \in 1..Len(shops_db) :
              /\ result.shop_id = shops_db[i].id
              /\ result.total_price = TotalAt(i, args.recipe_ingredients)
       /\ \A i \in 1..Len(shops_db) :
              TotalAt(i, args.recipe_ingredients) > 0
                  => result.total_price <= TotalAt(i, args.recipe_ingredients)

\* The first shop of the catalog prices nothing, a later shop is dearer
\* than the one returned.
C12_Witness ==
    /\ op = "find_cheapest_shop_for_recipe"
    /\ Len(shops_db) = 3
    /\ TotalAt(1, args.recipe_ingredients) = 0
    /\ result # None
    /\ result.total_price > 0
    /\ \E i \in 1..Len(shops_db) :
           TotalAt(i, args.recipe_ingredients) > result.total_price

\* C13: find_cheapest_shop_for_recipe called with ingredients none of which
\* is priced in any shop (every total_price is 0), an empty ingredient list
\* included, returns None and never a shop.
C13_NothingPricedReturnsNone ==
    (/\ op = "find_cheapest_shop_for_recipe"
     /\ \A i \in 1..Len(shops_db) : TotalAt(i, args.recipe_ingredients) = 0)
    => result = None


(***************************************************************************)
(* Properties of the price-match policy.                                   *)
(***************************************************************************)
\* a and b are the same text but for the case of their letters.
SameButCase(a, b) ==
    /\ Len(a) = Len(b)
    /\ \A k \in 1..Len(a) : LowerChar(a[k]) = LowerChar(b[k])

\* part is a contiguous piece of text, but for the case of the letters.
PartButCase(part, text) ==
    \E start \in 1..(Len(text) - Len(part) + 1) :
        \A k \in 1..Len(part) :
            LowerChar(text[start + k - 1]) = LowerChar(part[k])

\* One key of the table contains the product name or is contained in it.
SubstringMatch(key, product_name) ==
    PartButCase(product_name, key) \/ PartButCase(key, product_name)

\* C14: the price-match policy for one price table. If some key equals the
\* product name but for case, such a key's price (the first one's) is
\* returned, even when an earlier key matches by substring; otherwise the
\* price of the first key in table order that contains the product name or
\* is contained in it; otherwise None, and never 0.
C14_PriceMatchPolicy ==
    op = "_find_product_price" =>
        LET table == args.shop_prices
            product_name == args.product_name
            keys == 1..Len(table)
            exact == {k \in keys : SameButCase(table[k][1], product_name)}
            partial == {k \in keys : SubstringMatch(table[k][1], product_name)}
        IN  /\ exact # {} =>
                   \E k \in exact : /\ result = Some(table[k][2])
                                    /\ \A j \in exact : k <= j
            /\ (exact = {} /\ partial # {}) =>
                   \E k \in partial : /\ result = Some(table[k][2])
                                      /\ \A j \in partial : k <= j
            /\ (exact = {} /\ partial = {}) => result = None
            /\ result # Some(0)

\* The second key of the table equals the product name but for case and
\* its price is returned, although the first key, with another price, is a
\* part of the product name.
C14_Witness ==
    /\ op = "_find_product_price"
    /\ Len(args.shop_prices) = 2
    /\ SameButCase(args.shop_prices[2][1], args.product_name)
    /\ args.shop_prices[2][1] # args.product_name
    /\ ~SameButCase(args.shop_prices[1][1], args.product_name)
    /\ SubstringMatch(args.shop_prices[1][1], args.product_name)
    /\ args.shop_prices[1][2] # args.shop_prices[2][2]
    /\ result = Some(args.shop_prices[2][2])


(***************************************************************************)
(* Properties of the random recipe and of the category listing.            *)
(***************************************************************************)
\* The catalog recipes that conform to the flags of the call in progress.
ConformingRecipes ==
    {recipes_db[i] :
         i \in ConformingPositions(recipes_db, args.has_diabetes,
                                   args.has_gout, args.has_celiac)}

\* C15: for every flag combination the possible results of
\* get_random_recipe are exactly the recipes of the diagnosis-filtered
\* catalog: None is returned if and only if no recipe conforms, a returned
\* recipe always conforms, and every conforming recipe can be returned.
C15_RandomRangesOverFiltered ==
    op = "get_random_recipe" =>
        /\ get_random_recipe(recipes_db, args.has_diabetes, args.has_gout,
                             args.has_celiac)
               = IF ConformingRecipes = {} THEN {None} ELSE ConformingRecipes
        /\ (result = None) <=> (ConformingRecipes = {})
        /\ result # None => result \in ConformingRecipes
        /\ (result # None /\ args.has_gout /\ HasField(result, "purines"))
               => result.purines <= 100

\* With has_gout set, the last of two conforming recipes of a catalog that
\* also holds a recipe over the purine limit is returned.
C15_Witness ==
    /\ op = "get_random_recipe"
    /\ args.has_gout
    /\ Len(recipes_db) = 3
    /\ Cardinality(ConformingRecipes) = 2
    /\ result = recipes_db[3]
    /\ \E i \in 1..2 : recipes_db[i] \notin ConformingRecipes


\* The catalog positions of the recipes of the requested category that
\* conform to the flags of the call in progress.
CategoryPositions ==
    {i \in ConformingPositions(recipes_db, args.has_diabetes, args.has_gout,
                               args.has_celiac) :
         /\ HasField(recipes_db[i], "category")
         /\ recipes_db[i].category = args.category}

\* C16: get_recipes_by_category returns all catalog recipes whose category
\* equals the given one and which pass the diagnosis filter, in catalog
\* order, with no limit on their number.
C16_CategoryListsAllInOrder ==
    op = "get_recipes_by_category" =>
        IsSelection(result, recipes_db, CategoryPositions)

\* The first and the last recipe of the catalog are of the category and
\* are returned in that order; between them is a recipe that is not.
C16_Witness ==
    /\ op = "get_recipes_by_category"
    /\ Len(recipes_db) = 3
    /\ CategoryPositions = {1, 3}
    /\ result = <<recipes_db[1], recipes_db[3]>>
    /\ ~HasField(recipes_db[2], "category")


(***************************************************************************)
(* Properties of the distance function.                                    *)
(***************************************************************************)
\* C20: the distance function is symmetric and zero on identical points:
\* for all coordinate pairs A and B it returns a distance, the distance from
\* A to B is the distance from B to A, and the distance from A to A is 0.
C20_DistanceSymmetricZeroOnSame ==
    op = "_calculate_haversine_distance" =>
        /\ ~haversine_raises(args.lat1, args.lon1, args.lat2, args.lon2)
        /\ ~haversine_raises(args.lat2, args.lon2, args.lat1, args.lon1)
        /\ result = calculate_haversine_distance(args.lat2, args.lon2,
                                                 args.lat1, args.lon1)
        /\ (args.lat1 = args.lat2 /\ args.lon1 = args.lon2) => result = 0

\* The distance between a point and the point opposite to it on the globe
\* is asked for, and the call raises.
C20_Witness ==
    /\ op = "_calculate_haversine_distance"
    /\ args.lat1 = -args.lat2
    /\ args.lon2 - args.lon1 = 18000000
    /\ result = ValueError

\* Whenever the distance function returns, it is symmetric and zero on
\* identical points, and it raises for A and B exactly when it raises for
\* B and A.
DistanceSymmetricWhereDefined ==
    op = "_calculate_haversine_distance" =>
        IF haversine_raises(args.lat1, args.lon1, args.lat2, args.lon2)
        THEN haversine_raises(args.lat2, args.lon2, args.lat1, args.lon1)
        ELSE /\ ~haversine_raises(args.lat2, args.lon2, args.lat1, args.lon1)
             /\ result = calculate_haversine_distance(args.lat2, args.lon2,
                                                      args.lat1, args.lon1)
             /\ (args.lat1 = args.lat2 /\ args.lon1 = args.lon2) => result = 0


C18_NegativeLimitRejected ==
    (op \in {"search_recipes", "find_nearby_shops"} /\ args.limit < 0) =>
        /\ limit_raises(args.limit)
        /\ result = InvalidArgument

\* The recipe or shop id, category or product of the call in progress is
\* not in the catalogs.
UnknownRecipeId == \A i \in 1..Len(recipes_db) : recipes_db[i].id # args.recipe_id

UnknownShopId == \A i \in 1..Len(shops_db) : shops_db[i].id # args.shop_id

UnknownCategory ==
    \A i \in 1..Len(recipes_db) :
        HasField(recipes_db[i], "category")
            => recipes_db[i].category # args.category

UnknownProduct ==
    \A i \in 1..Len(shops_db) : MatchedPrice(i, args.product_name) = None

\* C19: lookups that find nothing give an absent or empty result:
\* get_recipe_by_id and get_shop_by_id return the record with exactly the
\* given id, or None when there is none; get_recipes_by_category with an
\* unknown category and compare_prices with an unknown product return the
\* empty list; find_cheapest_shop_for_product with an unknown product
\* returns None.
C19_NotFoundIsAbsentOrEmpty ==
    /\ op = "get_recipe_by_id" =>
           IF UnknownRecipeId
           THEN result = None
           ELSE result \in Range(recipes_db) /\ result.id = args.recipe_id
    /\ op = "get_shop_by_id" =>
           IF UnknownShopId
           THEN result = None
           ELSE result \in Range(shops_db) /\ result.id = args.shop_id
    /\ (op = "get_recipes_by_category" /\ UnknownCategory) => result = <<>>
    /\ (op = "compare_prices" /\ UnknownProduct) => result = <<>>
    /\ (op = "find_cheapest_shop_for_product" /\ UnknownProduct)
           => result = None

\* The recipe with an id the loaded catalog does not have is asked for, and
\* None is returned.
C19_Witness ==
    /\ op = "get_recipe_by_id"
    /\ recipes_db # <<>>
    /\ UnknownRecipeId
    /\ result = None

(***************************************************************************)
(* Properties of the embedded catalogs.                                    *)
(***************************************************************************)
\* Grechnevaya krupa, the buckwheat of MOCK_PRICES.
Buckwheat ==
    <<"u0413", "u0440", "u0435", "u0447", "u043d", "u0435", "u0432",
        "u0430", "u044f", " ", "u043a", "u0440", "u0443", "u043f", "u0430">>

\* Magnit, the name of shop_002.
Magnit == <<"u041c", "u0430", "u0433", "u043d", "u0438", "u0442">>

Ascending(entries, key) ==
    \A i, j \in 1..Len(entries) : i < j => entries[i][key] <= entries[j][key]

\* C21: on the embedded catalogs the comparison of the buckwheat prices has
\* five entries, in ascending order of price, and the first is the shop
\* "Magnit" with the price 79.
C21_SampleBuckwheatComparison ==
    (op = "compare_prices" /\ args.product_name = Buckwheat)
        => /\ Len(result) = 5
           /\ Ascending(result, "price")
           /\ result[1].shop_name = Magnit
           /\ result[1].price = 79

C21_Witness ==
    /\ op = "compare_prices"
    /\ args.product_name = Buckwheat
    /\ shops_db = MOCK_SHOPS
    /\ prices_db = MOCK_PRICES
    /\ [i \in 1..Len(result) |-> result[i].price] = <<79, 85, 89, 95, 99>>


\* kuritsa, the query of the example.
Chicken == <<"u043a", "u0443", "u0440", "u0438", "u0446", "u0430">>

\* Kuritsa s brokkoli na paru, the name of r_001.
ChickenWithBroccoli ==
    <<"u041a", "u0443", "u0440", "u0438", "u0446", "u0430", " ", "u0441",
        " ", "u0431", "u0440", "u043e", "u043a", "u043a", "u043e", "u043b",
        "u0438", " ", "u043d", "u0430", " ", "u043f", "u0430", "u0440",
        "u0443">>

\* C22: on the embedded catalog the search for "kuritsa" with the diabetes
\* flag (and no other flag, and room for one recipe or more) returns the
\* recipe "Kuritsa s brokkoli na paru", of glycemic index 35, and no recipe
\* of glycemic index above 55.
C22_SampleChickenSearch ==
    (/\ op = "search_recipes"
     /\ args.query = Chicken
     /\ args.has_diabetes /\ ~args.has_gout /\ ~args.has_celiac
     /\ args.limit >= 1)
        => /\ \E i \in 1..Len(result) :
                /\ result[i].name = ChickenWithBroccoli
                /\ result[i].glycemic_index = 35
           /\ \A i \in 1..Len(result) : result[i].glycemic_index <= 55

C22_Witness ==
    /\ op = "search_recipes"
    /\ recipes_db = RECIPES_DATABASE
    /\ args.query = Chicken
    /\ args.has_diabetes /\ ~args.has_gout /\ ~args.has_celiac
    /\ args.limit = max_recipe_results
    /\ Len(result) = 1
    /\ result[1].id = "r_001"


(***************************************************************************)
(* Properties of the search: the empty query, the thresholds, repeats.     *)
(***************************************************************************)
\* The query has no character but whitespace.
Blank(query) == \A i \in 1..Len(query) : query[i] \in Whitespace

\* The first n of a set of positions.
FirstOf(idx, n) == {i \in idx : Cardinality({j \in idx : j <= i}) <= n}

\* C23: an empty or whitespace-only query is not rejected and matches every
\* recipe: for limit >= 0 the result is the first `limit` recipes, in
\* catalog order, of the catalog recipes that conform to the active flags.
C23_BlankQueryMatchesAll ==
    (op = "search_recipes" /\ Blank(args.query) /\ args.limit >= 0)
        => /\ ~limit_raises(args.limit)
           /\ IsSelection(result, recipes_db,
                          FirstOf(ConformingPositions(recipes_db, args.has_diabetes,
                                                      args.has_gout, args.has_celiac),
                                  args.limit))

\* C23 witness: a whitespace-only query on a catalog of three, the first
\* recipe filtered out, the other two returned, one of them a recipe
\* without ingredients.
C23_Witness ==
    /\ op = "search_recipes"
    /\ args.query = <<" ">>
    /\ args.has_diabetes
    /\ args.limit = 2
    /\ Len(recipes_db) = 3
    /\ recipes_db[1].id = "r_2"
    /\ result = <<recipes_db[2], recipes_db[3]>>
    /\ \E i \in 1..2 : ~HasField(result[i], "ingredients")


\* The recipe is one of the recipes returned.
Kept(r) == \E j \in 1..Len(result) : result[j] = r

\* The recipe's value against its threshold, strictly or not (a missing
\* value is 0).
PassesDiabetes(r, strict) ==
    IF strict
    THEN Get(r, "glycemic_index", 0) < max_glycemic_index
    ELSE Get(r, "glycemic_index", 0) <= max_glycemic_index

PassesGout(r, strict) ==
    IF strict THEN Get(r, "purines", 0) < 100 ELSE Get(r, "purines", 0) <= 100

KeepsExactly(strict) ==
    \A i \in 1..Len(args.recipes) :
        Kept(args.recipes[i]) <=>
            /\ args.has_diabetes => PassesDiabetes(args.recipes[i], strict)
            /\ args.has_gout => PassesGout(args.recipes[i], strict)
            /\ args.has_celiac => Get(args.recipes[i], "suitable_for_celiac", FALSE)

Times(r) == Cardinality({j \in 1..Len(result) : result[j] = r})

\* C28: search_recipes never returns the same recipe twice: every catalog
\* recipe is returned at most once, also when its name and one or more of
\* its ingredient names contain the query, so the result has no duplicates
\* and is at most as long as the catalog.
C28_SearchReturnsNoRepeats ==
    op = "search_recipes" =>
        /\ \A i \in 1..Len(recipes_db) : Times(recipes_db[i]) <= 1
        /\ NoRepeat(result)
        /\ Len(result) <= Len(recipes_db)

\* C28 witness: a recipe whose name and whose ingredient both contain the
\* query, returned once.
C28_Witness ==
    /\ op = "search_recipes"
    /\ args.query = <<"a">>
    /\ \E i \in 1..Len(recipes_db) :
           /\ name_matches(<<"a">>, recipes_db[i])
           /\ ingredient_matches(<<"a">>, recipes_db[i])
           /\ Times(recipes_db[i]) = 1


(***************************************************************************)
(* The embedded catalog: thresholds and suitability flags.                 *)
(***************************************************************************)
\* C29: on the embedded catalog the diagnosis filter agrees with the static
\* suitability flags: a catalog recipe passes the diabetes filter if and
\* only if its suitable_for_diabetes flag is true, and passes the gout
\* filter if and only if its suitable_for_gout flag is true.
C29_FilterAgreesWithFlags ==
    (/\ op = "_filter_by_diagnosis"
     /\ recipes_db = RECIPES_DATABASE
     /\ Len(args.recipes) = 1
     /\ ~args.has_celiac)
        => LET recipe == args.recipes[1]
           IN  /\ (args.has_diabetes /\ ~args.has_gout)
                      => (result = <<recipe>> <=> recipe.suitable_for_diabetes)
               /\ (args.has_gout /\ ~args.has_diabetes)
                      => (result = <<recipe>> <=> recipe.suitable_for_gout)

\* C29 witness: r_007, flagged suitable for diabetes with a glycemic index
\* of 65, dropped by the diabetes filter.
C29_Witness ==
    /\ op = "_filter_by_diagnosis"
    /\ recipes_db = RECIPES_DATABASE
    /\ Len(args.recipes) = 1
    /\ args.recipes[1].id = "r_007"
    /\ args.recipes[1].glycemic_index = 65
    /\ args.recipes[1].suitable_for_diabetes
    /\ args.has_diabetes /\ ~args.has_gout /\ ~args.has_celiac
    /\ result = <<>>


(***************************************************************************)
(* Ingredients without a name.                                             *)
(***************************************************************************)
\* The positions of the requested ingredients whose name is empty or
\* missing.
Unnamed(ingredients) ==
    {k \in 1..Len(ingredients) : NameOf(ingredients[k]) = <<>>}

\* C30: an ingredient whose name is empty or missing is not skipped by
\* get_prices_for_recipe: for every shop with a non-empty price table
\* _find_product_price returns for it the price of the table's first key,
\* the ingredient is listed at that price and counted in found_items, and
\* that price is added to total_price.
C30_UnnamedIngredientPricedAtFirstKey ==
    op = "get_prices_for_recipe" =>
        \A i \in 1..Len(shops_db) :
            LET table == Get(prices_db, shops_db[i].id, <<>>)
                entry == result[i][2]
                unnamed == Unnamed(args.recipe_ingredients)
                named == PricedPositions(i, args.recipe_ingredients) \ unnamed
            IN  table # <<>> =>
                    /\ find_product_price(table, <<>>) = Some(table[1][2])
                    /\ Cardinality({j \in 1..Len(entry.items) :
                                       entry.items[j]
                                           = [name |-> <<>>, price |-> table[1][2]]})
                           = Cardinality(unnamed)
                    /\ entry.found_items
                           = Cardinality(unnamed) + Cardinality(named)
                    /\ entry.total_price
                           = Cardinality(unnamed) * table[1][2]
                               + SumOfMatched(i, args.recipe_ingredients, named)

\* C30 witness: of two ingredients the shop does not have the first and
\* the second has an empty name; the entry of a shop with a table of two
\* keys has one item, at the price of the table's first key.
C30_Witness ==
    /\ op = "get_prices_for_recipe"
    /\ args.recipe_ingredients = <<Ingredient(<<"x">>), Ingredient(<<>>)>>
    /\ \E i \in 1..Len(shops_db) :
           LET table == Get(prices_db, shops_db[i].id, <<>>)
           IN  /\ Len(table) = 2
               /\ table[1][2] # table[2][2]
               /\ result[i][2].found_items = 1
               /\ result[i][2].total_items = 2
               /\ result[i][2].total_price = table[1][2]


(***************************************************************************)
(* Properties of the handlers.                                             *)
(***************************************************************************)
\* The unconditional `del user_states[user_id]` of the three process_*
\* functions.
ProcessDels ==
    {"process_recipe_search:del", "process_price_comparison:del",
     "process_dietician_question:del"}

\* C26: when two updates of the same user are handled concurrently, the
\* unconditional del in process_recipe_search, process_price_comparison and
\* process_dietician_question never meets a key another handler has
\* removed, and no handler fails with a missing key after handle_text has
\* seen the user's state.
C26_NoMissingKey ==
    \A w \in Workers :
        workers[w].key_error \notin ProcessDels \cup {"handle_text:get"}

\* C26 witness: two text messages of a user in the state search_recipes
\* are handled at once; one worker has removed the state and the del of
\* the other has raised KeyError.
C26_Witness ==
    \E w, v \in Workers :
        /\ w # v
        /\ workers[w].pc # "idle" /\ workers[v].pc # "idle"
        /\ workers[w].update = workers[v].update
        /\ workers[w].update.kind = "text"
        /\ workers[w].entry = [action |-> "search_recipes"]
        /\ workers[v].entry = [action |-> "search_recipes"]
        /\ workers[w].pc = "process_recipe_search:send"
        /\ workers[w].key_error = ""
        /\ workers[v].key_error = "process_recipe_search:del"

\* A text message meets a main_menu callback: the guarded del of
\* show_main_menu removes the state between the test of handle_text and
\* the del of process_price_comparison.
C26_MenuWitness ==
    \E w, v \in Workers :
        /\ workers[w].pc # "idle" /\ workers[v].pc # "idle"
        /\ workers[w].update.kind = "callback"
        /\ workers[w].update.data = "main_menu"
        /\ workers[w].pc = "show_main_menu:send"
        /\ ~workers[w].error
        /\ workers[v].update.kind = "text"
        /\ workers[v].key_error = "process_price_comparison:del"


\* The update is one after which the user is to have no state: a text
\* message, a location message or the main_menu callback.
Clearing(update) ==
    \/ update.kind \in {"text", "location"}
    \/ update.kind = "callback" /\ update.data = "main_menu"

\* The handler of a clearing update has returned without an exception
\* raised on its way, and the user has no entry.
ClearedWhenHandled ==
    \A w \in Workers :
        (workers[w].pc = "done" /\ ~workers[w].error /\ Clearing(workers[w].update))
            => workers[w].update.user \notin DOMAIN user_states

\* A step changes the entry of no user but the one whose update the
\* stepping worker handles, and gives a user an entry only in the handler
\* of one of the four callbacks that start a dialogue, the entry of that
\* callback.
OnlyCallbacksCreate ==
    \A u \in Users :
        Get(user_states', u, None) # Get(user_states, u, None) =>
            \E w \in Workers :
                /\ workers'[w] # workers[w]
                /\ workers[w].update.user = u
                /\ u \in DOMAIN user_states' =>
                       /\ workers[w].update.kind = "callback"
                       /\ workers[w].update.data \in StateActions
                       /\ user_states'[u] = [action |-> workers[w].update.data]

RunsInWindow(user_id, from) ==
    Cardinality({i \in 1..Len(executed[user_id]) :
                    /\ from <= executed[user_id][i]
                    /\ executed[user_id][i] < from + rate_limit.period})

\* C25: a function wrapped with rate_limit(calls, period) is executed at
\* most `calls` times for the same user id within any window of `period`
\* seconds; a call over the limit returns None without executing the
\* function and is not added to the user's history.
C25_AtMostCallsPerWindow ==
    \A user_id \in DOMAIN executed :
        /\ \A from \in 0..MaxTime : RunsInWindow(user_id, from) <= rate_limit.calls
        /\ user_id \in DOMAIN call_history =>
               Len(call_history[user_id]) <= Len(executed[user_id]) + 
                   Cardinality({w \in Workers : callers[w].pc = "func"
                                                /\ callers[w].user_id = user_id})

\* C25 witness: with calls = 1 two callers of one user have both found the
\* history short of the limit, and the function has run twice for calls
\* made in the same second.
C25_Witness ==
    /\ rate_limit.calls = 1
    /\ \E user_id \in DOMAIN executed :
           /\ Len(executed[user_id]) = 2
           /\ executed[user_id][1] = executed[user_id][2]
           /\ \A w \in Workers : callers[w].pc = "return"

=============================================================================
